---------------------------- MODULE Spec2Model ----------------------------
(***************************************************************************)
(* Incremental text analysis of the Markdown editor: the statistics field  *)
(* (countField), the table of contents field (tocField), the range helpers *)
(* (getSurroundingLinePosition, mergeRangesInPlace) and the two lint       *)
(* providers (mdLint, ltLinter) with their pending-change fields.          *)
(*                                                                         *)
(* A buffer is a sequence of one-character strings; offsets are 0-based as *)
(* in the editor, so the character at offset p is doc[p + 1].              *)
(***************************************************************************)
EXTENDS Integers, Sequences, FiniteSets, TLC

VARIABLES doc, count, lastTr, edits, toc, raised, mIn, mOut, mCalls,
          provider, lintDiags, pending, scheduled, passes, nPasses, ltState,
          lastPass, lastEvent,
          called, tocArg, tocResult, idArg, idResult, replay,
          blockArg, blockResult

vars == <<doc, count, lastTr, edits, toc, raised, mIn, mOut, mCalls,
          provider, lintDiags, pending, scheduled, passes, nPasses, ltState,
          lastPass, lastEvent,
          called, tocArg, tocResult, idArg, idResult, replay,
          blockArg, blockResult>>

\* the arguments and results of the functions checked on their own, and the
\* change descriptors composed into a pending-change field since its reset
pureVars == <<called, tocArg, tocResult, idArg, idResult, replay,
              blockArg, blockResult>>

\* the state of the lint providers and of the lint plugin
lintVars == <<provider, lintDiags, pending, scheduled, passes, nPasses, ltState,
              lastPass, lastEvent>>

(***************************************************************************)
(* Bounds of the model.                                                    *)
(***************************************************************************)
MaxLen == 4          \* longest buffer of the statistics specifications
MaxInsert == 1       \* longest text one change inserts
MaxEdits == 2        \* transactions dispatched in one behaviour
MaxPos == 4          \* largest offset of a range handed to mergeRangesInPlace
MaxRanges == 3       \* longest array handed to mergeRangesInPlace
MaxCalls == 2        \* calls of mergeRangesInPlace on the same array

NL == "\n"
Letter == "a"
Punct == "."
Space == " "
Hash == "#"

IsWordChar(c) == c = Letter
IsSpaceChar(c) == c \in {Space, NL}

Max(a, b) == IF a >= b THEN a ELSE b
Min(a, b) == IF a <= b THEN a ELSE b

RECURSIVE SeqsUpTo(_, _)
SeqsUpTo(S, n) ==
    IF n = 0 THEN {<<>>}
    ELSE LET shorter == SeqsUpTo(S, n - 1)
         IN shorter \cup {Append(s, c) : s \in {t \in shorter : Len(t) = n - 1}, c \in S}

(***************************************************************************)
(* Text: line indexing of the buffer (doc.lines, doc.lineAt, doc.line).    *)
(***************************************************************************)
NLIdx(d) == {i \in 1..Len(d) : d[i] = NL}
Lines(d) == Cardinality(NLIdx(d)) + 1
\* doc.lineAt(pos).number
LineNoAt(d, pos) == 1 + Cardinality({i \in NLIdx(d) : i <= pos})
\* doc.line(n).from
LineFrom(d, n) ==
    IF n = 1 THEN 0
    ELSE CHOOSE i \in NLIdx(d) : Cardinality({j \in NLIdx(d) : j <= i}) = n - 1
\* doc.line(n).to
LineTo(d, n) ==
    IF n = Lines(d) THEN Len(d)
    ELSE (CHOOSE i \in NLIdx(d) : Cardinality({j \in NLIdx(d) : j <= i}) = n) - 1
LineText(d, n) == SubSeq(d, LineFrom(d, n) + 1, LineTo(d, n))
\* doc.sliceString(from, to)
Slice(d, from, to) == SubSeq(d, from + 1, to)

(***************************************************************************)
(* EditorState.wordAt(pos): the word around pos inside the line of pos, or *)
(* null (here <<>>) when no word character touches pos.                    *)
(***************************************************************************)
RECURSIVE WordStart(_, _, _)
WordStart(d, lo, p) ==
    IF p > lo /\ IsWordChar(d[p]) THEN WordStart(d, lo, p - 1) ELSE p
RECURSIVE WordEnd(_, _, _)
WordEnd(d, hi, p) ==
    IF p < hi /\ IsWordChar(d[p + 1]) THEN WordEnd(d, hi, p + 1) ELSE p

wordAt(d, pos) ==
    LET n == LineNoAt(d, pos)
        s == WordStart(d, LineFrom(d, n), pos)
        e == WordEnd(d, LineTo(d, n), pos)
    IN IF s = e THEN <<>> ELSE <<s, e>>

(***************************************************************************)
(* countAll(markdownToAST(text)): words are the maximal runs of            *)
(* non-whitespace characters, chars the non-whitespace characters.         *)
(***************************************************************************)
countAll(text) ==
    [words |-> Cardinality({i \in 1..Len(text) :
                    /\ ~IsSpaceChar(text[i])
                    /\ (i = 1 \/ IsSpaceChar(text[i - 1]))}),
     chars |-> Cardinality({i \in 1..Len(text) : ~IsSpaceChar(text[i])})]

\* text.trim()
RECURSIVE TrimLeft(_)
TrimLeft(t) == IF t # <<>> /\ IsSpaceChar(Head(t)) THEN TrimLeft(Tail(t)) ELSE t
RECURSIVE TrimRight(_)
TrimRight(t) ==
    IF t # <<>> /\ IsSpaceChar(t[Len(t)]) THEN TrimRight(SubSeq(t, 1, Len(t) - 1)) ELSE t
Trim(t) == TrimRight(TrimLeft(t))

(***************************************************************************)
(* Transactions.  A change is [from, to, insert] in old-buffer offsets;    *)
(* the changes of one transaction are sorted and do not touch.             *)
(***************************************************************************)
RECURSIVE ApplyChanges(_, _, _)
\* the new buffer: chs applied to d, pos the old offset already consumed
ApplyChanges(d, chs, pos) ==
    IF chs = <<>> THEN Slice(d, pos, Len(d))
    ELSE LET c == Head(chs)
         IN Slice(d, pos, c.from) \o c.insert \o ApplyChanges(d, Tail(chs), c.to)

NewDoc(d, chs) == ApplyChanges(d, chs, 0)

\* offset shift in front of change number i
RECURSIVE ShiftBefore(_, _)
ShiftBefore(chs, i) ==
    IF i <= 1 THEN 0
    ELSE ShiftBefore(chs, i - 1)
         + Len(chs[i - 1].insert) - (chs[i - 1].to - chs[i - 1].from)

\* ChangeSet.iterChanges: (fromA, toA, fromB, toB) of change number i
ChangedRange(chs, i) ==
    LET fromB == chs[i].from + ShiftBefore(chs, i)
    IN [fromA |-> chs[i].from, toA |-> chs[i].to,
        fromB |-> fromB, toB |-> fromB + Len(chs[i].insert)]

DocChanged(chs) == \E i \in 1..Len(chs) : chs[i].from # chs[i].to \/ chs[i].insert # <<>>

(***************************************************************************)
(* countField                                                              *)
(***************************************************************************)
countFieldCreate(d) == countAll(d)

\* (mutant) the counts of the changed range itself, not widened
processSegment_NoWiden(d, from, to) == countAll(Slice(d, from, to))

\* the counts processSegment adds (sign +1) or subtracts (sign -1)
processSegment(d, from, to) ==
    LET startWord == wordAt(d, from)
        endWord == wordAt(d, to)
        start == IF startWord = <<>> THEN from ELSE startWord[1]
        end == IF endWord = <<>> THEN to ELSE endWord[2]
        text == Slice(d, start, end)
        counts == countAll(text)
    IN IF counts.words = 0 /\ Len(Trim(text)) = 1 /\ IsWordChar(Trim(text)[1])
       THEN [words |-> 1, chars |-> 1]
       ELSE counts

RECURSIVE countFieldDelta(_, _, _, _)
countFieldDelta(old, new, chs, i) ==
    IF i > Len(chs) THEN [words |-> 0, chars |-> 0]
    ELSE LET r == ChangedRange(chs, i)
             minus == processSegment(old, r.fromA, r.toA)
             plus == processSegment(new, r.fromB, r.toB)
             rest == countFieldDelta(old, new, chs, i + 1)
         IN [words |-> plus.words - minus.words + rest.words,
             chars |-> plus.chars - minus.chars + rest.chars]

countFieldUpdate(value, old, chs) ==
    IF ~DocChanged(chs) THEN value
    ELSE LET delta == countFieldDelta(old, NewDoc(old, chs), chs, 1)
         IN [words |-> value.words + delta.words, chars |-> value.chars + delta.chars]

(***************************************************************************)
(* ChangeDesc: the sections of a change set, <<len, ins>> with ins = -1    *)
(* for an unchanged stretch of len characters and ins >= 0 for len old     *)
(* characters replaced by ins new ones.                                    *)
(***************************************************************************)
\* ChangeSet.of(changes, length).desc
RECURSIVE SectionsFrom(_, _, _)
SectionsFrom(chs, pos, length) ==
    IF chs = <<>> THEN (IF length > pos THEN <<<<length - pos, -1>>>> ELSE <<>>)
    ELSE LET c == Head(chs)
             gap == IF c.from > pos THEN <<<<c.from - pos, -1>>>> ELSE <<>>
             sec == IF c.from = c.to /\ c.insert = <<>> THEN <<>>
                    ELSE <<<<c.to - c.from, Len(c.insert)>>>>
         IN gap \o sec \o SectionsFrom(Tail(chs), c.to, length)

ChangeDescOf(chs, length) == SectionsFrom(chs, 0, length)

Deleted == -1    \* mapPos returning null

\* ChangeDesc.mapPos(pos, assoc, mode)
RECURSIVE MapSet(_, _, _, _, _, _, _)
MapSet(secs, i, posA, posB, pos, assoc, mode) ==
    IF i > Len(secs) THEN posB
    ELSE LET len == secs[i][1]
             ins == secs[i][2]
             endA == posA + len
         IN IF ins < 0
            THEN IF endA > pos THEN posB + (pos - posA)
                 ELSE MapSet(secs, i + 1, endA, posB + len, pos, assoc, mode)
            ELSE IF /\ mode # "Simple"
                    /\ endA >= pos
                    /\ \/ mode = "TrackDel" /\ posA < pos /\ endA > pos
                       \/ mode = "TrackBefore" /\ posA < pos
                       \/ mode = "TrackAfter" /\ endA > pos
                 THEN Deleted
                 ELSE IF endA > pos \/ (endA = pos /\ assoc < 0 /\ len = 0)
                      THEN (IF pos = posA \/ assoc < 0 THEN posB ELSE posB + ins)
                      ELSE MapSet(secs, i + 1, endA, posB + ins, pos, assoc, mode)

mapPos(desc, pos, assoc, mode) == MapSet(desc, 1, 0, 0, pos, assoc, mode)

\* ChangeSet.empty(length).desc
EmptyDesc(length) == IF length > 0 THEN <<<<length, -1>>>> ELSE <<>>

\* addSection(sections, len, ins, forceJoin)
addSection(sections, len, ins, forceJoin) ==
    LET n == Len(sections)
    IN IF len = 0 /\ ins <= 0 THEN sections
       ELSE IF n > 0 /\ ins <= 0 /\ ins = sections[n][2]
            THEN [sections EXCEPT ![n] = <<sections[n][1] + len, ins>>]
       ELSE IF n > 0 /\ len = 0 /\ sections[n][1] = 0
            THEN [sections EXCEPT ![n] = <<0, sections[n][2] + ins>>]
       ELSE IF forceJoin
            THEN [sections EXCEPT ![n] = <<sections[n][1] + len, sections[n][2] + ins>>]
       ELSE Append(sections, <<len, ins>>)

\* SectionIter: the sections still to be read, the first one being the
\* current one as <<len, ins, off>>; the iterator is done when none is left
SectionIter(desc) == [i \in 1..Len(desc) |-> <<desc[i][1], desc[i][2], 0>>]

\* SectionIter.forward(len)
forward(it, len) ==
    IF len = it[1][1] THEN Tail(it)
    ELSE <<<<it[1][1] - len, it[1][2], it[1][3] + len>>>> \o Tail(it)

\* SectionIter.forward2(len)
forward2(it, len) ==
    IF it[1][2] = -1 THEN forward(it, len)
    ELSE IF len = it[1][2] THEN Tail(it)
    ELSE <<<<it[1][1], it[1][2] - len, it[1][3] + len>>>> \o Tail(it)

\* composeSets(setA, setB): the loop from the iterators a and b on
RECURSIVE composeSets(_, _, _, _)
composeSets(a, b, sections, open) ==
    IF a = <<>> /\ b = <<>> THEN sections
    ELSE IF a # <<>> /\ a[1][2] = 0
         THEN composeSets(Tail(a), b, addSection(sections, a[1][1], 0, open), open)
    ELSE IF b # <<>> /\ b[1][1] = 0
         THEN composeSets(a, Tail(b), addSection(sections, 0, b[1][2], open), open)
    ELSE LET aLen == a[1][1]
             aIns == a[1][2]
             aOff == a[1][3]
             bLen == b[1][1]
             bIns == b[1][2]
             bOff == b[1][3]
             len == Min(IF aIns < 0 THEN aLen ELSE aIns, bLen)
             added == IF aIns = -1
                      THEN addSection(sections, len,
                                      IF bIns = -1 THEN -1 ELSE IF bOff # 0 THEN 0 ELSE bIns,
                                      open)
                      ELSE IF bIns = -1
                      THEN addSection(sections, IF aOff # 0 THEN 0 ELSE aLen, len, open)
                      ELSE addSection(sections, IF aOff # 0 THEN 0 ELSE aLen,
                                      IF bOff # 0 THEN 0 ELSE bIns, open)
             stillOpen == /\ aIns > len \/ (bIns >= 0 /\ bLen > len)
                          /\ open \/ Len(added) > Len(sections)
         IN composeSets(forward2(a, len), forward(b, len), added, stillOpen)

\* ChangeDesc.composeDesc
composeDesc(a, b) == composeSets(SectionIter(a), SectionIter(b), <<>>, FALSE)

\* the changed sections from number i on that follow each other directly
RECURSIVE ChangedRun(_, _)
ChangedRun(desc, i) ==
    IF i > Len(desc) \/ desc[i][2] < 0 THEN [len |-> 0, ins |-> 0, n |-> 0]
    ELSE LET rest == ChangedRun(desc, i + 1)
         IN [len |-> desc[i][1] + rest.len, ins |-> desc[i][2] + rest.ins, n |-> 1 + rest.n]

\* ChangeDesc.iterChangedRanges: [fromA, toA, fromB, toB] per changed
\* stretch, changed sections that touch reported as one
RECURSIVE ChangedRangesFrom(_, _, _, _)
ChangedRangesFrom(desc, i, posA, posB) ==
    IF i > Len(desc) THEN <<>>
    ELSE IF desc[i][2] < 0
         THEN ChangedRangesFrom(desc, i + 1, posA + desc[i][1], posB + desc[i][1])
    ELSE LET run == ChangedRun(desc, i)
         IN <<[fromA |-> posA, toA |-> posA + run.len,
               fromB |-> posB, toB |-> posB + run.ins]>>
            \o ChangedRangesFrom(desc, i + run.n, posA + run.len, posB + run.ins)

iterChangedRanges(desc) == ChangedRangesFrom(desc, 1, 0, 0)

(***************************************************************************)
(* getSurroundingLinePosition                                              *)
(***************************************************************************)
\* view.state.doc.line(n).text.trim() === ''
BlankLine(d, n) == Trim(LineText(d, n)) = <<>>

RECURSIVE WalkUp(_, _, _, _)
WalkUp(d, fromLine, prevBlock, currentBlock) ==
    IF fromLine <= 1 THEN fromLine
    ELSE IF BlankLine(d, fromLine - 1)
         THEN (IF prevBlock THEN fromLine ELSE WalkUp(d, fromLine - 1, prevBlock, FALSE))
         ELSE WalkUp(d, fromLine - 1, prevBlock \/ ~currentBlock, currentBlock)

RECURSIVE WalkDown(_, _, _, _)
WalkDown(d, toLine, nextBlock, currentBlock) ==
    IF toLine >= Lines(d) THEN toLine
    ELSE IF BlankLine(d, toLine + 1)
         THEN (IF nextBlock THEN toLine ELSE WalkDown(d, toLine + 1, nextBlock, FALSE))
         ELSE WalkDown(d, toLine + 1, nextBlock \/ ~currentBlock, currentBlock)

\* the fromLine and the toLine the two walks end on
SurroundingLines(d, from, to, context) ==
    LET fromLine == Max(1, LineNoAt(d, from) - context)
        toLine == Min(Lines(d), LineNoAt(d, to) + context)
    IN [fromLine |-> WalkUp(d, fromLine, FALSE, TRUE),
        toLine |-> WalkDown(d, toLine, FALSE, TRUE)]

getSurroundingLinePosition(d, from, to, context) ==
    LET lines == SurroundingLines(d, from, to, context)
    IN [from |-> LineFrom(d, lines.fromLine), to |-> LineTo(d, lines.toLine)]

(***************************************************************************)
(* The Markdown parser as far as headings go: a line is an ATX heading of  *)
(* level k when it starts with k (1..6) hash marks followed by a space or  *)
(* the end of the line.                                                    *)
(***************************************************************************)
RECURSIVE LeadingHashes(_)
LeadingHashes(t) == IF t # <<>> /\ Head(t) = Hash THEN 1 + LeadingHashes(Tail(t)) ELSE 0

\* the level of the heading the line text is, 0 when it is no heading
HeadingLevel(t) ==
    LET k == LeadingHashes(t)
    IN IF k >= 1 /\ k <= 6 /\ (Len(t) = k \/ t[k + 1] = Space) THEN k ELSE 0

\* extractASTNodes(markdownToAST(text), 'Heading'): the heading nodes of a
\* text, in document order, as [from, level] with from relative to the text
HeadingNodes(text) ==
    LET hl == {n \in 1..Lines(text) : HeadingLevel(LineText(text, n)) > 0}
        nth(k) == CHOOSE n \in hl : Cardinality({m \in hl : m <= n}) = k
    IN [k \in 1..Cardinality(hl) |->
            [from |-> LineFrom(text, nth(k)),
             level |-> HeadingLevel(LineText(text, nth(k)))]]

(***************************************************************************)
(* headingToID.  The buffers of the model hold no "<", "*", "_", "`" and   *)
(* no "[", so a heading has no named anchor and the replacements of HTML   *)
(* elements, formatting, links and footnotes leave it as it is.            *)
(***************************************************************************)
SectionId == <<"s", "e", "c", "t", "i", "o", "n">>

UpperLetters == {"A", "H", "W"}
LowerLetters == {"a", "c", "d", "e", "h", "i", "l", "m", "o", "r", "s", "t", "u", "w"}

\* String.prototype.toLowerCase on one character
toLowerCase(c) ==
    IF c = "A" THEN "a" ELSE IF c = "H" THEN "h" ELSE IF c = "W" THEN "w" ELSE c

\* /\{(.+)\}$/.exec(headingString)[1]: from the first brace that has a
\* character between it and a closing brace at the very end; <<>> when the
\* expression does not match (the group is never empty when it does)
pandocAttrs(headingString) ==
    LET n == Len(headingString)
        opens == {i \in 1..(n - 2) : headingString[i] = "{"}
    IN IF n >= 3 /\ headingString[n] = "}" /\ opens # {}
       THEN SubSeq(headingString, (CHOOSE i \in opens : \A j \in opens : i <= j) + 1, n - 1)
       ELSE <<>>

\* split(' ') and filter(x => x !== ''): the words between the spaces
RECURSIVE SplitWords(_, _)
SplitWords(t, word) ==
    IF t = <<>> THEN (IF word = <<>> THEN <<>> ELSE <<word>>)
    ELSE IF Head(t) = Space
         THEN (IF word = <<>> THEN <<>> ELSE <<word>>) \o SplitWords(Tail(t), <<>>)
         ELSE SplitWords(Tail(t), Append(word, Head(t)))

\* attrs.find(x => x.startsWith('#')): <<>> when there is none (a word
\* found is never empty)
RECURSIVE FindId(_)
FindId(attrs) ==
    IF attrs = <<>> THEN <<>>
    ELSE IF Head(Head(attrs)) = Hash THEN Head(attrs) ELSE FindId(Tail(attrs))

RECURSIVE SlugChars(_)
\* whitespace to hyphens, then only [a-zA-Z0-9_.-] kept
SlugChars(t) ==
    IF t = <<>> THEN <<>>
    ELSE LET c == Head(t)
         IN (IF IsSpaceChar(c) THEN <<"-">>
             ELSE IF c \in LowerLetters \cup UpperLetters \cup {Punct, "-", "_"} THEN <<c>>
             ELSE <<>>) \o SlugChars(Tail(t))

RECURSIVE FromFirstLetter(_)
\* text.substring(index of the first letter), the whole text when it has none
FromFirstLetter(t) ==
    IF \A i \in 1..Len(t) : t[i] \notin LowerLetters THEN t
    ELSE IF Head(t) \in LowerLetters THEN t ELSE FromFirstLetter(Tail(t))

headingToID(headingString) ==
    LET id == FindId(SplitWords(pandocAttrs(headingString), <<>>))
        slug == SlugChars(headingString)
        text == FromFirstLetter([i \in 1..Len(slug) |-> toLowerCase(slug[i])])
    IN IF id # <<>> THEN Tail(id)
       ELSE IF Len(text) = 0 THEN SectionId ELSE text

(***************************************************************************)
(* generateToc: the rendered level of every entry, in one forward pass     *)
(***************************************************************************)
RECURSIVE generateTocFrom(_, _, _)
generateTocFrom(headings, i, h) ==
    IF i > Len(headings) THEN headings
    ELSE LET lvl == headings[i].level
         IN IF lvl \in 1..6
            THEN LET h2 == [k \in 1..6 |->
                              IF k < lvl THEN h[k] ELSE IF k = lvl THEN h[k] + 1 ELSE 0]
                 IN generateTocFrom(
                        [headings EXCEPT ![i].renderedLevel = SubSeq(h2, 1, lvl)],
                        i + 1, h2)
            ELSE generateTocFrom(headings, i + 1, h)

\* (mutant) the entries are returned with the rendered levels they came with
generateToc_Skip(headings) == headings

generateToc(headings) == generateTocFrom(headings, 1, [k \in 1..6 |-> 0])

(***************************************************************************)
(* tocField                                                                *)
(***************************************************************************)
\* the entries pushed for the heading nodes of text, whose offsets are
\* looked up in d as they are
FreshEntries(d, text, lineStart) ==
    LET nodes == HeadingNodes(text)
    IN [k \in 1..Len(nodes) |->
          LET n == LineNoAt(d, nodes[k].from)
          IN [line |-> n,
              pos |-> IF lineStart THEN LineFrom(d, n) ELSE nodes[k].from,
              text |-> LineText(d, n),
              level |-> nodes[k].level, renderedLevel |-> <<>>,
              id |-> headingToID(LineText(d, n))]]

tocFieldCreate(d) == generateToc(FreshEntries(d, d, FALSE))

\* (mutant) the mapped line is not parsed again: an entry stays whatever
\* its line has become
RECURSIVE KeptEntries_NoReparse(_, _, _, _)
KeptEntries_NoReparse(value, i, desc, new) ==
    IF i > Len(value) THEN <<>>
    ELSE LET entry == value[i]
             newPos == mapPos(desc, entry.pos, 1, "TrackAfter")
             n == LineNoAt(new, newPos)
             kept == IF newPos # Deleted
                     THEN <<[entry EXCEPT !.line = n, !.pos = LineFrom(new, n),
                                          !.text = LineText(new, n)]>>
                     ELSE <<>>
         IN kept \o KeptEntries_NoReparse(value, i + 1, desc, new)

\* the previous entries mapped to the new buffer, those dropped left out
RECURSIVE KeptEntries(_, _, _, _)
KeptEntries(value, i, desc, new) ==
    IF i > Len(value) THEN <<>>
    ELSE LET entry == value[i]
             newPos == mapPos(desc, entry.pos, 1, "TrackAfter")
             n == LineNoAt(new, newPos)
             text == LineText(new, n)
             kept == IF newPos # Deleted /\ Len(HeadingNodes(text)) # 0
                     THEN <<[entry EXCEPT !.line = n, !.pos = LineFrom(new, n),
                                          !.text = text]>>
                     ELSE <<>>
         IN kept \o KeptEntries(value, i + 1, desc, new)

\* the line in front of a changed range, as tocField.update computes it
lineBefore(new, fromB) == Min(LineNoAt(new, fromB) - 1, 1)

\* newDoc.line(n) raises a RangeError for n outside 1..lines
LineRaises(d, n) == n < 1 \/ n > Lines(d)

RECURSIVE RangeEntries(_, _, _)
\* the entries pushed while iterating the changed ranges from number i on
RangeEntries(new, chs, i) ==
    IF i > Len(chs) THEN <<>>
    ELSE LET r == ChangedRange(chs, i)
             from == LineFrom(new, lineBefore(new, r.fromB))
             to == LineTo(new, LineNoAt(new, r.toB))
             text == Slice(new, from, to)
         IN FreshEntries(new, text, TRUE) \o RangeEntries(new, chs, i + 1)

\* (mutant) one entry per line, the earlier one winning
SortDedupe_First(entries) ==
    LET ls == {entries[i].line : i \in 1..Len(entries)}
        nth(k) == CHOOSE n \in ls : Cardinality({m \in ls : m <= n}) = k
        first(n) == CHOOSE i \in 1..Len(entries) :
                       /\ entries[i].line = n
                       /\ \A j \in 1..(i - 1) : entries[j].line # n
    IN [k \in 1..Cardinality(ls) |-> entries[first(nth(k))]]

\* tocEntries.sort by line, then one entry per line, the later one winning
SortDedupe(entries) ==
    LET ls == {entries[i].line : i \in 1..Len(entries)}
        nth(k) == CHOOSE n \in ls : Cardinality({m \in ls : m <= n}) = k
        last(n) == CHOOSE i \in 1..Len(entries) :
                      /\ entries[i].line = n
                      /\ \A j \in (i + 1)..Len(entries) : entries[j].line # n
    IN [k \in 1..Cardinality(ls) |-> entries[last(nth(k))]]

tocUpdateRaises(old, chs) ==
    /\ DocChanged(chs)
    /\ \E i \in 1..Len(chs) :
          LineRaises(NewDoc(old, chs), lineBefore(NewDoc(old, chs), ChangedRange(chs, i).fromB))

\* the value tocField.update returns when it does not raise
tocFieldUpdate(value, old, chs) ==
    IF ~DocChanged(chs) THEN value
    ELSE LET new == NewDoc(old, chs)
             kept == KeptEntries(value, 1, ChangeDescOf(chs, Len(old)), new)
         IN generateToc(SortDedupe(kept \o RangeEntries(new, chs, 1)))

(***************************************************************************)
(* mergeRangesInPlace.  A range is [from, to]; the array is a sequence.    *)
(***************************************************************************)
MergeGap == 1    \* next.from <= current.to + 1 merges

\* Array.prototype.sort((a, b) => a.from - b.from): stable, ascending by from
RECURSIVE InsertByFrom(_, _)
InsertByFrom(sorted, r) ==
    IF sorted = <<>> THEN <<r>>
    ELSE IF sorted[Len(sorted)].from <= r.from THEN Append(sorted, r)
    ELSE Append(InsertByFrom(SubSeq(sorted, 1, Len(sorted) - 1), r), sorted[Len(sorted)])

RECURSIVE SortByFrom(_)
SortByFrom(ranges) ==
    IF ranges = <<>> THEN <<>>
    ELSE InsertByFrom(SortByFrom(SubSeq(ranges, 1, Len(ranges) - 1)), ranges[Len(ranges)])

\* (mutant) only overlapping or touching ranges merge: gap tolerance 0
MergesInto_NoGap(current, next) == next.from <= current.to

\* whether the sweep merges next into current
MergesInto(current, next) == next.from <= current.to + MergeGap

\* the range current becomes when next is merged into it
Merged(current, next) == [current EXCEPT !.to = Max(current.to, next.to)]

\* the sweep: ranges[1..writeIndex] are final, readIndex is looked at next
RECURSIVE Sweep(_, _, _)
Sweep(ranges, writeIndex, readIndex) ==
    IF readIndex > Len(ranges) THEN [ranges |-> ranges, writeIndex |-> writeIndex]
    ELSE LET current == ranges[writeIndex]
             next == ranges[readIndex]
         IN IF MergesInto(current, next)
            THEN Sweep([ranges EXCEPT ![writeIndex] = Merged(current, next)],
                       writeIndex, readIndex + 1)
            ELSE Sweep([ranges EXCEPT ![writeIndex + 1] = next],
                       writeIndex + 1, readIndex + 1)

\* (mutant) ranges.length = writeIndex: the last merged range is cut off too
CutOff_OneShort(ranges, writeIndex) == SubSeq(ranges, 1, writeIndex - 1)

\* ranges.length = writeIndex + 1 (writeIndex is 1-based here)
CutOff(ranges, writeIndex) == SubSeq(ranges, 1, writeIndex)

mergeRangesInPlace(ranges) ==
    IF Len(ranges) <= 1 THEN ranges
    ELSE LET swept == Sweep(SortByFrom(ranges), 1, 2)
         IN CutOff(swept.ranges, swept.writeIndex)

(***************************************************************************)
(* The lint state of the editor.  A diagnostic is kept with the positions  *)
(* it was reported at (dfrom, dto: the from and to of the Diagnostic       *)
(* object) and with its span in the current buffer (from, to), which the   *)
(* lint state maps through every transaction; forEachDiagnostic hands a    *)
(* provider all three: (d, from, to).                                      *)
(***************************************************************************)
RemarkLint == "remark-lint"
LanguageTool == "language-tool"

\* d.source !== undefined && d.source.includes(tag); a source is kept as
\* the tag it starts with and the rule or issue type that follows it
Unsourced == "undefined"

\* (mutant) every diagnostic with a source passes the test
SourceIncludes_AnySource(source, tag) == source.tool # Unsourced

SourceIncludes(source, tag) == source.tool # Unsourced /\ source.tool = tag

\* a non-empty diagnostic is a mark (its ends stay with the text they
\* cover, and it goes when it covers nothing any more), an empty one is a
\* point (it goes when the text around it is deleted)
MapDiagnostic(d, desc) ==
    IF d.from = d.to
    THEN LET pos == mapPos(desc, d.from, 1, "TrackDel")
         IN IF pos < 0 THEN <<>> ELSE <<[d EXCEPT !.from = pos, !.to = pos]>>
    ELSE LET newFrom == mapPos(desc, d.from, 1, "Simple")
             newTo == mapPos(desc, d.to, -1, "Simple")
         IN IF newFrom >= newTo THEN <<>>
            ELSE <<[d EXCEPT !.from = newFrom, !.to = newTo]>>

RECURSIVE MapDiagnostics(_, _)
MapDiagnostics(diags, desc) ==
    IF diags = <<>> THEN <<>>
    ELSE MapDiagnostic(Head(diags), desc) \o MapDiagnostics(Tail(diags), desc)

\* setDiagnostics: the list sorted by from, then to; every diagnostic is
\* now recorded at the positions it was returned with
DiagBefore(a, b) == a.from < b.from \/ (a.from = b.from /\ a.to <= b.to)

RECURSIVE InsertDiag(_, _)
InsertDiag(sorted, d) ==
    IF sorted = <<>> THEN <<d>>
    ELSE IF DiagBefore(sorted[Len(sorted)], d) THEN Append(sorted, d)
    ELSE Append(InsertDiag(SubSeq(sorted, 1, Len(sorted) - 1), d), sorted[Len(sorted)])

RECURSIVE setDiagnostics(_)
setDiagnostics(diags) ==
    IF diags = <<>> THEN <<>>
    ELSE LET d == diags[Len(diags)]
         IN InsertDiag(setDiagnostics(SubSeq(diags, 1, Len(diags) - 1)),
                       [d EXCEPT !.dfrom = d.from, !.dto = d.to])

(***************************************************************************)
(* The pending-change fields (mdLintChangesField,                          *)
(* languageToolChangesField).                                              *)
(***************************************************************************)
\* (mutant) the field starts with nothing pending
changesFieldCreate_Nothing(d) == EmptyDesc(Len(d))

\* create: one change replacing the whole buffer by itself
changesFieldCreate(d) == IF d = <<>> THEN <<>> ELSE <<<<Len(d), Len(d)>>>>

\* update on the reset effect
changesFieldReset(newDoc) == EmptyDesc(Len(newDoc))

\* (mutant) the descriptor of the last transaction alone
changesFieldUpdate_LastOnly(value, old, chs) == ChangeDescOf(chs, Len(old))

\* update on a transaction that changes the buffer
changesFieldUpdate(value, old, chs) == composeDesc(value, ChangeDescOf(chs, Len(old)))

(***************************************************************************)
(* The synchronous part of a pass: the ranges to analyse and the           *)
(* diagnostics to keep.                                                    *)
(***************************************************************************)
MdContext == 1000
LtContext == 1

\* getBlockPosition and mergeRanges of util/expand-selection: the block
\* policy and the range merge with gap tolerance 1
getBlockPosition(d, from, to, context) == getSurroundingLinePosition(d, from, to, context)

mergeRanges(ranges) == mergeRangesInPlace(ranges)

\* overlaps of mdLint, rangesOverlap of util/expand-selection
overlaps(d, ranges) ==
    \E i \in 1..Len(ranges) : ~(d.to < ranges[i].from \/ d.from > ranges[i].to)

rangesOverlap(r, ranges) == overlaps(r, ranges)

ExpandChange(prov, d, fromB, toB) ==
    IF prov = RemarkLint THEN getSurroundingLinePosition(d, fromB, toB, MdContext)
    ELSE getBlockPosition(d, fromB, toB, LtContext)

ExpandedRanges(prov, d, desc) ==
    LET cr == iterChangedRanges(desc)
    IN [i \in 1..Len(cr) |-> ExpandChange(prov, d, cr[i].fromB, cr[i].toB)]

\* the test on an existing diagnostic: on the positions it was reported at
StaleOverlap(prov, d, ranges) ==
    IF prov = RemarkLint THEN overlaps([from |-> d.dfrom, to |-> d.dto], ranges)
    ELSE rangesOverlap([from |-> d.dfrom, to |-> d.dto], ranges)

\* diagnostics.push({ ...d, from, to })
\* (the object pushed carries the current span as its from and to)
Retain_Stale(d) == [d EXCEPT !.from = d.dfrom, !.to = d.dto]

Retain(d) == [d EXCEPT !.dfrom = d.from, !.dto = d.to]

\* the forEachDiagnostic callback over the lint state in document order
RECURSIVE Reconcile(_, _, _, _, _)
Reconcile(prov, diags, i, ranges, kept) ==
    IF i > Len(diags) THEN [ranges |-> ranges, kept |-> kept]
    ELSE LET d == diags[i]
         IN IF ~SourceIncludes(d.source, prov)
            THEN Reconcile(prov, diags, i + 1, ranges, kept)
            ELSE IF ~StaleOverlap(prov, d, ranges)
                 THEN Reconcile(prov, diags, i + 1, ranges, Append(kept, Retain(d)))
                 ELSE Reconcile(prov, diags, i + 1,
                                Append(ranges, [from |-> d.from, to |-> d.to]), kept)

MergeRanges(prov, ranges) ==
    IF prov = RemarkLint THEN mergeRangesInPlace(ranges) ELSE mergeRanges(ranges)

\* a pass as it leaves its synchronous part
BeginPass(prov, d, desc, diags) ==
    LET expanded == ExpandedRanges(prov, d, desc)
        rec == Reconcile(prov, diags, 1, expanded, <<>>)
        merged == MergeRanges(prov, rec.ranges)
    IN [prov |-> prov,
        docAt |-> d,
        coverage |-> iterChangedRanges(desc),
        expanded |-> expanded,
        startDiags |-> diags,
        ranges |-> merged,
        diagnostics |-> rec.kept,
        nRetained |-> Len(rec.kept),
        todo |-> 1..Len(merged),
        outcomes |-> [i \in 1..Len(merged) |-> "pending"],
        answers |-> [i \in 1..Len(merged) |-> <<>>],
        rejected |-> FALSE,
        dirty |-> FALSE]

(***************************************************************************)
(* The asynchronous part of a pass: one task per merged range.             *)
(***************************************************************************)
MaxMessages == 1     \* findings the analyzer reports for one range

Undefined == "undefined"

\* the places remark reports: none, a point, or a position from a start
\* point to an end point
NoPlace == [kind |-> Undefined, line |-> 0, column |-> 0, eline |-> 0, ecolumn |-> 0]
Point(l, c) == [kind |-> "point", line |-> l, column |-> c, eline |-> 0, ecolumn |-> 0]
Position(l, c, el, ec) ==
    [kind |-> "position", line |-> l, column |-> c, eline |-> el, ecolumn |-> ec]

\* a line or a column preset to null (lines and columns count from 1)
Null == 0

\* placeToOffset on a point; line and column are 1-based
PointToOffset(line, column, source) ==
    IF column = Null \/ line = Null THEN [from |-> 0, to |-> 0]
    ELSE LET offset == LineFrom(source, line) + column - 1
         IN [from |-> offset, to |-> offset]

\* placeToOffset: of a position the from of its start and the to of its end
placeToOffset(place, source) ==
    IF place.kind = Undefined THEN [from |-> 0, to |-> 0]
    ELSE IF place.kind = "position"
         THEN [from |-> PointToOffset(place.line, place.column, source).from,
               to |-> PointToOffset(place.eline, place.ecolumn, source).to]
         ELSE PointToOffset(place.line, place.column, source)

\* the findings remark may report on a text: at most MaxMessages, each
\* without a place, at the start of a line with text, or over such a line
TextLines(text) == {l \in 1..Lines(text) : LineText(text, l) # <<>>}

MdPlaces(text) ==
    {NoPlace}
    \cup {Point(l, 1) : l \in TextLines(text)}
    \cup {Position(l, 1, l, Len(LineText(text, l)) + 1) : l \in TextLines(text)}

Fatalities == {FALSE}
RuleIds == {"rule"}

MdMessages(text) ==
    {[place |-> pl, fatal |-> f, message |-> "m", ruleId |-> r] :
        pl \in MdPlaces(text), f \in Fatalities, r \in RuleIds}

\* the Diagnostic mdLint pushes for a message on the range starting at from
MdDiagnostic(msg, text, from) ==
    LET off == placeToOffset(msg.place, text)
    IN [from |-> off.from + from, to |-> off.to + from,
        dfrom |-> off.from + from, dto |-> off.to + from,
        severity |-> IF msg.fatal THEN "error" ELSE "warning",
        message |-> msg.message,
        source |-> [tool |-> RemarkLint,
                    label |-> IF msg.ruleId = "null" THEN "" ELSE msg.ruleId],
        actions |-> <<>>]

\* extractTextnodes(markdownToAST(text)): the spans of the lines with text
extractTextnodes(text) ==
    {[from |-> LineFrom(text, l), to |-> LineTo(text, l)] : l \in TextLines(text)}

IssueTypes == {"misspelling"}
MaxActions == 10
ReplacementCounts == {0}

LetterOffsets(text) == {o \in 0..(Len(text) - 1) : IsWordChar(text[o + 1])}

\* the n replacements of a match, in the collaborator's order: the i-th is
\* a text of i letters
Replacements(n) == [i \in 1..n |-> [value |-> [j \in 1..i |-> Letter]]]

\* the matches LanguageTool may report on a text: they start at a letter
\* and end inside the text
LtMatchesOf(text, lengths, types, counts) ==
    {m \in {[offset |-> o, length |-> l, issueType |-> t, message |-> "m",
              replacements |-> Replacements(n)] :
                o \in LetterOffsets(text), l \in lengths, t \in types, n \in counts} :
        m.offset + m.length <= Len(text)}

LtMatches(text) == LtMatchesOf(text, {1}, IssueTypes, ReplacementCounts)

\* (mutant) one action per replacement, however many there are
RECURSIVE Actions_All(_, _)
Actions_All(replacements, i) ==
    IF replacements = <<>> THEN <<>>
    ELSE <<[name |-> Head(replacements).value]>> \o Actions_All(Tail(replacements), i + 1)

\* the actions of a diagnostic: one per replacement, at most MaxActions,
\* each named by its replacement text
RECURSIVE Actions(_, _)
Actions(replacements, i) ==
    IF replacements = <<>> \/ i = MaxActions THEN <<>>
    ELSE <<[name |-> Head(replacements).value]>> \o Actions(Tail(replacements), i + 1)

\* apply (view, from, to) of an action: the transaction it dispatches
apply(action, from, to) == <<[from |-> from, to |-> to, insert |-> action.name]>>

\* the check of a match against the text nodes of its range
MatchIsValid(match, from, textNodes) ==
    LET fromOffset == match.offset
        toOffset == from + match.length
    IN \E node \in textNodes : fromOffset >= node.from /\ toOffset <= node.to

\* (mutant) no severity of its own for the issue type "style"
LtDiagnostic_NoStyle(match, from) ==
    [from |-> match.offset + from, to |-> match.offset + match.length + from,
     dfrom |-> match.offset + from, dto |-> match.offset + match.length + from,
     severity |-> IF match.issueType = "misspelling" THEN "error" ELSE "warning",
     message |-> match.message,
     source |-> [tool |-> LanguageTool, label |-> match.issueType],
     actions |-> IF Len(match.replacements) > 0 THEN Actions(match.replacements, 0)
                 ELSE <<>>]

\* the Diagnostic ltLinter pushes for a valid match
LtDiagnostic(match, from) ==
    [from |-> match.offset + from, to |-> match.offset + match.length + from,
     dfrom |-> match.offset + from, dto |-> match.offset + match.length + from,
     severity |-> IF match.issueType = "style" THEN "info"
                  ELSE IF match.issueType = "misspelling" THEN "error" ELSE "warning",
     message |-> match.message,
     source |-> [tool |-> LanguageTool, label |-> match.issueType],
     actions |-> IF Len(match.replacements) > 0 THEN Actions(match.replacements, 0)
                 ELSE <<>>]

\* what the analyzer answers for one range: remark resolves with messages
\* or rejects; the LanguageTool call resolves with matches, with an error
\* string, with undefined, or rejects
RECURSIVE MessageLists(_, _)
MessageLists(S, n) ==
    IF n = 0 THEN {<<>>}
    ELSE MessageLists(S, n - 1)
         \cup {Append(l, m) : l \in {k \in MessageLists(S, n - 1) : Len(k) = n - 1}, m \in S}

Answers(prov, text) ==
    IF prov = RemarkLint
    THEN {[kind |-> "throw", items |-> <<>>]}
         \cup {[kind |-> "ok", items |-> l] : l \in MessageLists(MdMessages(text), MaxMessages)}
    ELSE {[kind |-> k, items |-> <<>>] : k \in {"throw", "error", "none"}}
         \cup {[kind |-> "ok", items |-> l] : l \in MessageLists(LtMatches(text), MaxMessages)}

\* languageToolState.update for one updateLTState effect (running and
\* lastError of the field; running is kept when the effect leaves it out)
languageToolStateUpdate(value, e) ==
    [running |-> IF "running" \in DOMAIN e THEN e.running ELSE value.running,
     lastError |-> IF "lastError" \in DOMAIN e THEN e.lastError ELSE Undefined]

RECURSIVE ApplyLTEffects(_, _)
ApplyLTEffects(value, effects) ==
    IF effects = <<>> THEN value
    ELSE ApplyLTEffects(languageToolStateUpdate(value, Head(effects)), Tail(effects))

\* the updateLTState effects a task of ltLinter dispatches on an answer
LtEffects(answer) ==
    IF answer.kind = "throw" THEN <<>>
    ELSE <<[running |-> FALSE]>>
         \o (IF answer.kind = "none" THEN <<>>
             ELSE IF answer.kind = "error"
                  THEN <<[running |-> FALSE, lastError |-> "error"]>>
                  ELSE <<[running |-> FALSE]>>)

\* the diagnostics a task pushes on an answer for the range [from, to]
RECURSIVE MdFresh(_, _, _)
MdFresh(items, text, from) ==
    IF items = <<>> THEN <<>>
    ELSE <<MdDiagnostic(Head(items), text, from)>> \o MdFresh(Tail(items), text, from)

RECURSIVE LtFresh(_, _, _)
LtFresh(items, text, from) ==
    IF items = <<>> THEN <<>>
    ELSE (IF MatchIsValid(Head(items), from, extractTextnodes(text))
          THEN <<LtDiagnostic(Head(items), from)>> ELSE <<>>)
         \o LtFresh(Tail(items), text, from)

Fresh(prov, answer, text, from) ==
    IF answer.kind # "ok" THEN <<>>
    ELSE IF prov = RemarkLint THEN MdFresh(answer.items, text, from)
    ELSE LtFresh(answer.items, text, from)

\* a pass after the task of its i-th range has got its answer
AfterTask(p, i, answer) ==
    LET r == p.ranges[i]
        text == Slice(p.docAt, r.from, r.to)
    IN [p EXCEPT !.todo = @ \ {i},
                 !.outcomes[i] = answer.kind,
                 !.answers[i] = answer.items,
                 !.diagnostics = @ \o Fresh(p.prov, answer, text, r.from),
                 !.rejected = @ \/ answer.kind = "throw"]

\* no function is being checked on its own
PureIdle ==
    /\ called = FALSE
    /\ tocArg = <<>> /\ tocResult = <<>>
    /\ idArg = <<>> /\ idResult = <<>>
    /\ replay = <<>>
    /\ blockArg = <<>> /\ blockResult = <<>>

\* the lint state where no lint provider is installed
NoPass == BeginPass("none", <<>>, <<>>, <<>>)

\* languageToolState.create (running and lastError)
languageToolStateCreate == [running |-> FALSE, lastError |-> Undefined]

LintIdle ==
    /\ provider = "none"
    /\ lintDiags = <<>> /\ pending = <<>>
    /\ scheduled = FALSE
    /\ passes = <<>> /\ nPasses = 0
    /\ ltState = languageToolStateCreate
    /\ lastPass = NoPass /\ lastEvent = "init"

(***************************************************************************)
(* Statistics specification: a buffer under arbitrary transactions.        *)
(***************************************************************************)
CountAlphabet == {Letter, Punct, Space, NL}
CountInserts == SeqsUpTo(CountAlphabet, MaxInsert)

\* one-change transactions on d
Changes1(d, Inserts) ==
    {<<[from |-> f, to |-> t, insert |-> ins]>> :
        f \in 0..Len(d), t \in 0..Len(d), ins \in Inserts}

\* the same text typed at two cursors
Changes2(d, Inserts) ==
    {<<[from |-> f, to |-> f, insert |-> ins], [from |-> g, to |-> g, insert |-> ins]>> :
        f \in 0..Len(d), g \in 0..Len(d), ins \in Inserts \ {<<>>}}

ValidTr(d, chs) ==
    /\ \A i \in 1..Len(chs) : chs[i].from <= chs[i].to
    /\ \A i \in 1..Len(chs) : chs[i].from # chs[i].to \/ chs[i].insert # <<>>
    /\ \A i \in 1..(Len(chs) - 1) : chs[i].to < chs[i + 1].from
    /\ Len(NewDoc(d, chs)) <= MaxLen

InitCount ==
    /\ doc \in SeqsUpTo(CountAlphabet, MaxLen)
    /\ count = countFieldCreate(doc)
    /\ lastTr = <<>>
    /\ edits = 0
    /\ toc = <<>> /\ raised = ""
    /\ mIn = <<>> /\ mOut = <<>> /\ mCalls = 0
    /\ LintIdle
    /\ PureIdle

DispatchCount(chs) ==
    /\ edits < MaxEdits
    /\ ValidTr(doc, chs)
    /\ edits' = edits + 1
    /\ doc' = NewDoc(doc, chs)
    /\ count' = countFieldUpdate(count, doc, chs)
    /\ lastTr' = chs
    /\ UNCHANGED <<toc, raised, mIn, mOut, mCalls>>
    /\ UNCHANGED lintVars
    /\ UNCHANGED pureVars

CountEditOne == \E chs \in Changes1(doc, CountInserts) : DispatchCount(chs)

CountEditTwo == \E chs \in Changes2(doc, CountInserts) : DispatchCount(chs)

NextCount == CountEditOne \/ CountEditTwo

SpecCount == InitCount /\ [][NextCount]_vars

(***************************************************************************)
(* Table of contents specification.  A dispatch whose field update raises  *)
(* does not produce a new editor state: the buffer and the field stay.     *)
(***************************************************************************)
TocAlphabet == {Hash, Space, Letter, NL}
TocInserts == SeqsUpTo(TocAlphabet, MaxInsert)

InitToc ==
    /\ doc \in SeqsUpTo(TocAlphabet, MaxLen)
    /\ toc = tocFieldCreate(doc)
    /\ raised = ""
    /\ lastTr = <<>>
    /\ edits = 0
    /\ count = [words |-> 0, chars |-> 0]
    /\ mIn = <<>> /\ mOut = <<>> /\ mCalls = 0
    /\ LintIdle
    /\ PureIdle

DispatchToc(chs) ==
    /\ edits < MaxEdits
    /\ ValidTr(doc, chs)
    /\ edits' = edits + 1
    /\ lastTr' = chs
    /\ IF tocUpdateRaises(doc, chs)
       THEN /\ raised' = "RangeError"
            /\ UNCHANGED <<doc, toc>>
       ELSE /\ raised' = ""
            /\ doc' = NewDoc(doc, chs)
            /\ toc' = tocFieldUpdate(toc, doc, chs)
    /\ UNCHANGED <<count, mIn, mOut, mCalls>>
    /\ UNCHANGED lintVars
    /\ UNCHANGED pureVars

TocEditOne == \E chs \in Changes1(doc, TocInserts) : DispatchToc(chs)

TocEditTwo == \E chs \in Changes2(doc, TocInserts) : DispatchToc(chs)

NextToc == TocEditOne \/ TocEditTwo

SpecToc == InitToc /\ [][NextToc]_vars

(***************************************************************************)
(* Range merging specification: mergeRangesInPlace on every array of at    *)
(* most MaxRanges ranges with offsets up to MaxPos, called repeatedly.     *)
(***************************************************************************)
RangesUpTo(n) == {[from |-> f, to |-> t] : f \in 0..n, t \in 0..n}
ProperRanges(n) == {r \in RangesUpTo(n) : r.from <= r.to}

InitMerge ==
    /\ mIn \in SeqsUpTo(ProperRanges(MaxPos), MaxRanges)
    /\ mOut = mIn
    /\ mCalls = 0
    /\ doc = <<>> /\ count = [words |-> 0, chars |-> 0]
    /\ lastTr = <<>> /\ edits = 0 /\ toc = <<>> /\ raised = ""
    /\ LintIdle
    /\ PureIdle

CallMerge ==
    /\ mCalls < MaxCalls
    /\ mOut' = mergeRangesInPlace(mOut)
    /\ mCalls' = mCalls + 1
    /\ UNCHANGED <<mIn, doc, count, lastTr, edits, toc, raised>>
    /\ UNCHANGED lintVars
    /\ UNCHANGED pureVars

NextMerge == CallMerge

SpecMerge == InitMerge /\ [][NextMerge]_vars

(***************************************************************************)
(* Lint specification: a buffer with one lint provider under edits, the    *)
(* runs of the lint plugin and the answers of the analyzer.                *)
(***************************************************************************)
MaxLintLen == 3      \* longest of the short initial buffers
MaxPasses == 2       \* passes started in one behaviour
MaxInFlight == 2     \* passes in flight at the same time

LintAlphabet == {Letter, NL}
LintInserts == SeqsUpTo(LintAlphabet, MaxInsert)

\* two blocks of text far enough apart for two separate lint ranges
TwoBlockDoc == <<NL, NL, NL, Letter, NL, NL, Letter, NL, NL, NL>>

\* the editor as it opens a buffer: the pending-change field covers the
\* whole buffer and the lint plugin has scheduled its first run
InitLint ==
    /\ provider \in {RemarkLint, LanguageTool}
    /\ doc \in SeqsUpTo(LintAlphabet, MaxLintLen)
    /\ pending = changesFieldCreate(doc)
    /\ lintDiags = <<>>
    /\ scheduled = TRUE
    /\ passes = <<>> /\ nPasses = 0
    /\ ltState = languageToolStateCreate
    /\ lastPass = NoPass /\ lastEvent = "init"
    /\ edits = 0 /\ lastTr = <<>>
    /\ count = [words |-> 0, chars |-> 0] /\ toc = <<>> /\ raised = ""
    /\ mIn = <<>> /\ mOut = <<>> /\ mCalls = 0
    /\ PureIdle

ValidChange(chs) ==
    /\ \A i \in 1..Len(chs) : chs[i].from <= chs[i].to
    /\ \A i \in 1..Len(chs) : chs[i].from # chs[i].to \/ chs[i].insert # <<>>

\* a transaction that changes the buffer: the pending-change field composes
\* it, the lint state maps its diagnostics, the lint plugin schedules a run,
\* and a pass in flight no longer works on the buffer of the view
LintTransaction(chs, event) ==
    /\ edits < MaxEdits
    /\ ValidChange(chs)
    /\ edits' = edits + 1
    /\ doc' = NewDoc(doc, chs)
    /\ pending' = changesFieldUpdate(pending, doc, chs)
    /\ lintDiags' = MapDiagnostics(lintDiags, ChangeDescOf(chs, Len(doc)))
    /\ passes' = [i \in 1..Len(passes) |-> [passes[i] EXCEPT !.dirty = TRUE]]
    /\ scheduled' = TRUE
    /\ lastEvent' = event
    /\ UNCHANGED <<provider, nPasses, ltState, lastPass>>
    /\ UNCHANGED <<count, toc, raised, mIn, mOut, mCalls>>
    /\ UNCHANGED pureVars

\* a transaction of the user typing or deleting
LintDispatch(chs) == LintTransaction(chs, "edit") /\ UNCHANGED lastTr

LintEdit == \E chs \in Changes1(doc, LintInserts) : LintDispatch(chs)

\* a letter typed at one cursor or at two, each at the start, in the middle or at
\* the end of the buffer
Cursors(d) == {0, Len(d) \div 2, Len(d)}

LintEditOne ==
    \E chs \in Changes1(doc, {<<Letter>>}) :
        /\ chs[1].from = chs[1].to
        /\ chs[1].from \in Cursors(doc)
        /\ LintDispatch(chs)

LintEditTwo ==
    \E chs \in Changes2(doc, {<<Letter>>}) :
        /\ chs[1].from < chs[2].from
        /\ {chs[1].from, chs[2].from} \subseteq Cursors(doc)
        /\ LintDispatch(chs)

\* (mutant) a transaction of a pass that also inserts a letter at the start
PassChanges_Insert(effects) == <<[from |-> 0, to |-> 0, insert |-> <<Letter>>]>>

\* the changes of a transaction a pass dispatches: it carries effects only
\* (the state of the grammar linter, the reset of the pending changes)
PassChanges(effects) == <<>>

\* (mutant) the lint plugin takes the returned list whatever has become of
\* the buffer
Complete_Always(p) ==
    /\ pending' = changesFieldReset(doc)
    /\ lintDiags' = setDiagnostics(p.diagnostics)
    /\ lastPass' = p
    /\ lastEvent' = "finish"

\* the end of a pass none of whose tasks rejected: the reset effect, then
\* the lint plugin takes the returned list if the buffer is still the one
\* the run started on
Complete(p) ==
    /\ pending' = changesFieldReset(doc)
    /\ lintDiags' = IF p.dirty THEN lintDiags ELSE setDiagnostics(p.diagnostics)
    /\ lastPass' = p
    /\ lastEvent' = "finish"

\* a run of the lint plugin: the provider's synchronous part; with no
\* range to analyse the pass is over at once
StartPass ==
    /\ scheduled
    /\ nPasses < MaxPasses
    /\ Len(passes) < MaxInFlight
    /\ scheduled' = FALSE
    /\ nPasses' = nPasses + 1
    /\ ltState' = IF provider = LanguageTool
                  THEN languageToolStateUpdate(ltState, [running |-> TRUE])
                  ELSE ltState
    /\ LET p == BeginPass(provider, doc, pending, lintDiags)
       IN IF p.todo = {}
          THEN Complete(p) /\ UNCHANGED passes
          ELSE /\ passes' = Append(passes, p)
               /\ lastEvent' = "start"
               /\ UNCHANGED <<pending, lintDiags, lastPass>>
    /\ doc' = NewDoc(doc, PassChanges("running"))
    /\ UNCHANGED <<provider, edits>>
    /\ UNCHANGED <<count, lastTr, toc, raised, mIn, mOut, mCalls>>
    /\ UNCHANGED pureVars

Without(seq, k) == SubSeq(seq, 1, k - 1) \o SubSeq(seq, k + 1, Len(seq))

\* the analyzer answers the task of one range of a pass in flight; the
\* last task to answer ends the pass
SettleFrom(A(_, _)) ==
    \E k \in 1..Len(passes) : \E i \in passes[k].todo :
      LET r == passes[k].ranges[i]
      IN \E answer \in A(provider, Slice(passes[k].docAt, r.from, r.to)) :
          LET p == AfterTask(passes[k], i, answer)
          IN /\ ltState' = IF provider = LanguageTool
                           THEN ApplyLTEffects(ltState, LtEffects(answer))
                           ELSE ltState
             /\ passes' = IF p.todo = {} THEN Without(passes, k)
                          ELSE [passes EXCEPT ![k] = p]
             /\ IF p.rejected
                THEN /\ lastEvent' = IF answer.kind = "throw" THEN "reject" ELSE "settle"
                     /\ lastPass' = IF answer.kind = "throw" THEN p ELSE lastPass
                     /\ UNCHANGED <<pending, lintDiags>>
                ELSE IF p.todo = {}
                     THEN Complete(p)
                     ELSE /\ lastEvent' = "settle"
                          /\ UNCHANGED <<pending, lintDiags, lastPass>>
             /\ doc' = NewDoc(doc, PassChanges(answer.kind))
             /\ UNCHANGED <<provider, edits, scheduled, nPasses>>
             /\ UNCHANGED <<count, lastTr, toc, raised, mIn, mOut, mCalls>>
             /\ UNCHANGED pureVars

Settle == SettleFrom(Answers)

NextLint == LintEdit \/ StartPass \/ Settle

SpecLint == InitLint /\ [][NextLint]_vars

\* the grammar linter on a buffer with two blocks of text
InitLintBlocks ==
    /\ provider = LanguageTool
    /\ doc = TwoBlockDoc
    /\ pending = changesFieldCreate(doc)
    /\ lintDiags = <<>>
    /\ scheduled = TRUE
    /\ passes = <<>> /\ nPasses = 0
    /\ ltState = languageToolStateCreate
    /\ lastPass = NoPass /\ lastEvent = "init"
    /\ edits = 0 /\ lastTr = <<>>
    /\ count = [words |-> 0, chars |-> 0] /\ toc = <<>> /\ raised = ""
    /\ mIn = <<>> /\ mOut = <<>> /\ mCalls = 0
    /\ PureIdle

NextLintBlocks == LintEditOne \/ LintEditTwo \/ StartPass \/ Settle

SpecLintBlocks == InitLintBlocks /\ [][NextLintBlocks]_vars

(***************************************************************************)
(* Numbering specification: generateToc on a list of headings.             *)
(***************************************************************************)
MaxHeadings == 5     \* longest list of headings handed to generateToc
MaxLevel == 3        \* deepest heading level in such a list

\* an entry as tocField pushes it, of which generateToc reads the level
EntryOfLevel(lvl) ==
    [line |-> 0, pos |-> 0, text |-> <<>>, level |-> lvl, renderedLevel |-> <<>>,
     id |-> SectionId]

InitNumbering ==
    /\ \E levels \in SeqsUpTo(1..MaxLevel, MaxHeadings) :
          tocArg = [i \in 1..Len(levels) |-> EntryOfLevel(levels[i])]
    /\ called = FALSE /\ tocResult = <<>>
    /\ idArg = <<>> /\ idResult = <<>> /\ replay = <<>>
    /\ blockArg = <<>> /\ blockResult = <<>>
    /\ doc = <<>> /\ count = [words |-> 0, chars |-> 0]
    /\ lastTr = <<>> /\ edits = 0 /\ toc = <<>> /\ raised = ""
    /\ mIn = <<>> /\ mOut = <<>> /\ mCalls = 0
    /\ LintIdle

CallGenerateToc ==
    /\ ~called
    /\ called' = TRUE
    /\ tocResult' = generateToc(tocArg)
    /\ UNCHANGED <<tocArg, idArg, idResult, replay, blockArg, blockResult>>
    /\ UNCHANGED <<doc, count, lastTr, edits, toc, raised, mIn, mOut, mCalls>>
    /\ UNCHANGED lintVars

NextNumbering == CallGenerateToc

SpecNumbering == InitNumbering /\ [][NextNumbering]_vars

(***************************************************************************)
(* Heading id specification: headingToID on a heading line.                *)
(***************************************************************************)
MaxIdLen == 6        \* longest heading line drawn from IdAlphabet

IdAlphabet == {Letter, "A", "!", Hash, Space, "{", "}"}

HeaderCustomId ==
    <<"H", "e", "a", "d", "e", "r", " ", "{", "#", "c", "u", "s", "t", "o", "m", "-",
      "i", "d", "}">>
HelloWorld == <<"H", "e", "l", "l", "o", " ", "W", "o", "r", "l", "d", "!">>

InitHeadingId ==
    /\ idArg \in SeqsUpTo(IdAlphabet, MaxIdLen) \cup {HeaderCustomId, HelloWorld}
    /\ called = FALSE /\ idResult = <<>>
    /\ tocArg = <<>> /\ tocResult = <<>> /\ replay = <<>>
    /\ blockArg = <<>> /\ blockResult = <<>>
    /\ doc = <<>> /\ count = [words |-> 0, chars |-> 0]
    /\ lastTr = <<>> /\ edits = 0 /\ toc = <<>> /\ raised = ""
    /\ mIn = <<>> /\ mOut = <<>> /\ mCalls = 0
    /\ LintIdle

CallHeadingToID ==
    /\ ~called
    /\ called' = TRUE
    /\ idResult' = headingToID(idArg)
    /\ UNCHANGED <<idArg, tocArg, tocResult, replay, blockArg, blockResult>>
    /\ UNCHANGED <<doc, count, lastTr, edits, toc, raised, mIn, mOut, mCalls>>
    /\ UNCHANGED lintVars

NextHeadingId == CallHeadingToID

SpecHeadingId == InitHeadingId /\ [][NextHeadingId]_vars

(***************************************************************************)
(* Pending-change specification: one of the pending-change fields under    *)
(* edits and under the reset effect a finished pass dispatches.  replay    *)
(* holds the descriptors of the transactions since the last reset, nPasses *)
(* counts the resets.  Only lengths matter: the buffer is made of letters. *)
(***************************************************************************)
PendingInserts == SeqsUpTo({Letter}, MaxInsert)

InitPending ==
    /\ doc \in SeqsUpTo({Letter}, MaxLen)
    /\ pending = changesFieldCreate(doc)
    /\ replay = <<>>
    /\ nPasses = 0
    /\ edits = 0 /\ lastTr = <<>>
    /\ lastEvent = "init"
    /\ provider = "none" /\ lintDiags = <<>> /\ scheduled = FALSE /\ passes = <<>>
    /\ ltState = languageToolStateCreate /\ lastPass = NoPass
    /\ called = FALSE /\ tocArg = <<>> /\ tocResult = <<>> /\ idArg = <<>> /\ idResult = <<>>
    /\ blockArg = <<>> /\ blockResult = <<>>
    /\ count = [words |-> 0, chars |-> 0] /\ toc = <<>> /\ raised = ""
    /\ mIn = <<>> /\ mOut = <<>> /\ mCalls = 0

PendingIdle ==
    /\ UNCHANGED <<provider, lintDiags, scheduled, passes, ltState, lastPass>>
    /\ UNCHANGED <<called, tocArg, tocResult, idArg, idResult, blockArg, blockResult>>
    /\ UNCHANGED <<count, toc, raised, mIn, mOut, mCalls>>

\* a transaction that changes the buffer
PendingDispatch(chs) ==
    /\ edits < MaxEdits
    /\ ValidTr(doc, chs)
    /\ doc' = NewDoc(doc, chs)
    /\ pending' = changesFieldUpdate(pending, doc, chs)
    /\ replay' = Append(replay, ChangeDescOf(chs, Len(doc)))
    /\ edits' = edits + 1
    /\ lastTr' = chs
    /\ lastEvent' = "edit"
    /\ UNCHANGED nPasses
    /\ PendingIdle

PendingEditOne == \E chs \in Changes1(doc, PendingInserts) : PendingDispatch(chs)

PendingEditTwo == \E chs \in Changes2(doc, PendingInserts) : PendingDispatch(chs)

\* a transaction that carries the reset effect
PendingReset ==
    /\ nPasses < MaxPasses
    /\ pending' = changesFieldReset(doc)
    /\ replay' = <<>>
    /\ nPasses' = nPasses + 1
    /\ edits' = 0
    /\ lastTr' = <<>>
    /\ lastEvent' = "reset"
    /\ UNCHANGED doc
    /\ PendingIdle

NextPending == PendingEditOne \/ PendingEditTwo \/ PendingReset

SpecPending == InitPending /\ [][NextPending]_vars

(***************************************************************************)
(* Grammar specification: the grammar linter on a short buffer, with       *)
(* matches of every kind of issue type, of one or two characters and with  *)
(* none, one, MaxActions or more replacements, and the user invoking the   *)
(* suggested fixes of the diagnostics shown.                               *)
(***************************************************************************)
MaxGrammarLen == 1   \* longest initial buffer of the grammar specification
MaxMatchLen == 2     \* longest match

AllIssueTypes == {"style", "misspelling", "grammar"}
AllReplacementCounts == {0, 1, MaxActions, MaxActions + 1}

GrammarAnswers(prov, text) ==
    {[kind |-> k, items |-> <<>>] : k \in {"throw", "error", "none"}}
    \cup {[kind |-> "ok", items |-> l] :
            l \in MessageLists(LtMatchesOf(text, 1..MaxMatchLen, AllIssueTypes,
                                           AllReplacementCounts), MaxMessages)}

InitGrammar ==
    /\ provider = LanguageTool
    /\ doc \in SeqsUpTo(LintAlphabet, MaxGrammarLen)
    /\ pending = changesFieldCreate(doc)
    /\ lintDiags = <<>>
    /\ scheduled = TRUE
    /\ passes = <<>> /\ nPasses = 0
    /\ ltState = languageToolStateCreate
    /\ lastPass = NoPass /\ lastEvent = "init"
    /\ edits = 0 /\ lastTr = <<>>
    /\ count = [words |-> 0, chars |-> 0] /\ toc = <<>> /\ raised = ""
    /\ mIn = <<>> /\ mOut = <<>> /\ mCalls = 0
    /\ PureIdle

SettleGrammar == SettleFrom(GrammarAnswers)

\* the user invokes an action of a diagnostic shown: the lint panel calls
\* apply with the span of the diagnostic in the current buffer
ApplyFix ==
    \E k \in 1..Len(lintDiags) : \E a \in 1..Len(lintDiags[k].actions) :
        LET chs == apply(lintDiags[k].actions[a], lintDiags[k].from, lintDiags[k].to)
        IN /\ LintTransaction(chs, "fix")
           /\ lastTr' = chs

NextGrammar == StartPass \/ SettleGrammar \/ ApplyFix

SpecGrammar == InitGrammar /\ [][NextGrammar]_vars

(***************************************************************************)
(* Style specification: the Markdown linter on a short buffer, remark      *)
(* reporting messages at every kind of place: none, a point, a start/end   *)
(* pair, with the line or the column of a point preset to null or not.     *)
(***************************************************************************)
MaxStyleLen == 2     \* longest initial buffer of the style specification

\* the points of a text (a column may be one past the end of its line), and
\* the points with a null line, a null column or both
PointsOf(text) ==
    {<<l, c>> : l \in 1..Lines(text), c \in 1..(MaxStyleLen + 1)}
        \cap {pt \in (1..(MaxStyleLen + 1)) \X (1..(MaxStyleLen + 1)) :
                pt[1] <= Lines(text) /\ pt[2] <= Len(LineText(text, pt[1])) + 1}

NullPoints == {<<Null, Null>>, <<Null, 1>>, <<1, Null>>}

StylePlaces(text) ==
    {NoPlace}
    \cup {Point(pt[1], pt[2]) : pt \in PointsOf(text) \cup NullPoints}
    \cup {pl \in {Position(st[1], st[2], en[1], en[2]) :
                    st \in PointsOf(text) \cup NullPoints,
                    en \in PointsOf(text) \cup NullPoints} :
            \/ Null \in {pl.line, pl.column, pl.eline, pl.ecolumn}
            \/ pl.line < pl.eline
            \/ pl.line = pl.eline /\ pl.column <= pl.ecolumn}

StyleAnswers(prov, text) ==
    {[kind |-> "throw", items |-> <<>>]}
    \cup {[kind |-> "ok", items |-> l] :
            l \in MessageLists({[place |-> pl, fatal |-> f, message |-> "m", ruleId |-> r] :
                                  pl \in StylePlaces(text), f \in BOOLEAN, r \in RuleIds},
                               MaxMessages)}

InitStyle ==
    /\ provider = RemarkLint
    /\ doc \in SeqsUpTo(LintAlphabet, MaxStyleLen)
    /\ pending = changesFieldCreate(doc)
    /\ lintDiags = <<>>
    /\ scheduled = TRUE
    /\ passes = <<>> /\ nPasses = 0
    /\ ltState = languageToolStateCreate
    /\ lastPass = NoPass /\ lastEvent = "init"
    /\ edits = 0 /\ lastTr = <<>>
    /\ count = [words |-> 0, chars |-> 0] /\ toc = <<>> /\ raised = ""
    /\ mIn = <<>> /\ mOut = <<>> /\ mCalls = 0
    /\ PureIdle

SettleStyle == SettleFrom(StyleAnswers)

NextStyle == StartPass \/ SettleStyle

SpecStyle == InitStyle /\ [][NextStyle]_vars

(***************************************************************************)
(* Two-provider specification: both linters are registered with the one    *)
(* lint state, so a pass of one finds there the diagnostics of the other   *)
(* and diagnostics set without a source.  The state after a joint run on   *)
(* the two-block buffer: nothing pending, one run and one edit left.       *)
(***************************************************************************)
MaxSharedDiags == 2  \* diagnostics in the lint state when the edit comes
MaxSpan == 1         \* longest span of such a diagnostic

SharedSources == {[tool |-> RemarkLint, label |-> "rule"],
                  [tool |-> LanguageTool, label |-> "misspelling"],
                  [tool |-> Unsourced, label |-> ""]}

SharedDiagnostics(d) ==
    {[from |-> f, to |-> f + MaxSpan, dfrom |-> f, dto |-> f + MaxSpan,
      severity |-> "warning", message |-> "m", source |-> src, actions |-> <<>>] :
        f \in {o \in 0..(Len(d) - MaxSpan) : o % 2 = 1}, src \in SharedSources}

InitShared ==
    /\ provider \in {RemarkLint, LanguageTool}
    /\ doc = TwoBlockDoc
    /\ pending = changesFieldReset(doc)
    /\ lintDiags \in {setDiagnostics(l) : l \in SeqsUpTo(SharedDiagnostics(doc), MaxSharedDiags)}
    /\ scheduled = FALSE
    /\ passes = <<>> /\ nPasses = MaxPasses - 1
    /\ ltState = languageToolStateCreate
    /\ lastPass = NoPass /\ lastEvent = "init"
    /\ edits = MaxEdits - 1 /\ lastTr = <<>>
    /\ count = [words |-> 0, chars |-> 0] /\ toc = <<>> /\ raised = ""
    /\ mIn = <<>> /\ mOut = <<>> /\ mCalls = 0
    /\ PureIdle

NextShared == LintEditOne \/ LintEditTwo \/ StartPass \/ Settle

SpecShared == InitShared /\ [][NextShared]_vars

(***************************************************************************)
(* Block specification: getSurroundingLinePosition called on a range of a  *)
(* buffer, and called again on the range it returned.                      *)
(***************************************************************************)
MaxBlockLen == 7     \* longest buffer handed to getSurroundingLinePosition
MaxContext == 2      \* largest context value

InitBlocks ==
    /\ doc \in SeqsUpTo(LintAlphabet, MaxBlockLen)
    /\ \E from \in 0..Len(doc) : \E to \in from..Len(doc) : \E context \in 0..MaxContext :
          blockArg = [from |-> from, to |-> to, context |-> context]
    /\ blockResult = <<>>
    /\ called = FALSE
    /\ tocArg = <<>> /\ tocResult = <<>>
    /\ idArg = <<>> /\ idResult = <<>> /\ replay = <<>>
    /\ count = [words |-> 0, chars |-> 0]
    /\ lastTr = <<>> /\ edits = 0 /\ toc = <<>> /\ raised = ""
    /\ mIn = <<>> /\ mOut = <<>> /\ mCalls = 0
    /\ LintIdle

BlockCall(from, to) ==
    /\ blockResult' = Append(blockResult,
                             getSurroundingLinePosition(doc, from, to, blockArg.context))
    /\ UNCHANGED <<doc, blockArg, called, tocArg, tocResult, idArg, idResult, replay>>
    /\ UNCHANGED <<count, lastTr, edits, toc, raised, mIn, mOut, mCalls>>
    /\ UNCHANGED lintVars

\* the call on the range given
CallSurrounding ==
    /\ blockResult = <<>>
    /\ BlockCall(blockArg.from, blockArg.to)

\* the call on the range the first call returned, with the same context
CallSurroundingAgain ==
    /\ Len(blockResult) = 1
    /\ BlockCall(blockResult[1].from, blockResult[1].to)

NextBlocks == CallSurrounding \/ CallSurroundingAgain

SpecBlocks == InitBlocks /\ [][NextBlocks]_vars

(***************************************************************************)
(* Attach specification: the linter attached to a short buffer, the user   *)
(* editing, and the lint plugin running the provider after an edit or      *)
(* when a run is forced without one.                                       *)
(***************************************************************************)
MaxAttachLen == 2    \* longest initial buffer of the attach specification

InitAttach ==
    /\ provider \in {RemarkLint, LanguageTool}
    /\ doc \in SeqsUpTo(LintAlphabet, MaxAttachLen)
    /\ pending = changesFieldCreate(doc)
    /\ lintDiags = <<>>
    /\ scheduled = TRUE
    /\ passes = <<>> /\ nPasses = 0
    /\ ltState = languageToolStateCreate
    /\ lastPass = NoPass /\ lastEvent = "init"
    /\ edits = 0 /\ lastTr = <<>>
    /\ count = [words |-> 0, chars |-> 0] /\ toc = <<>> /\ raised = ""
    /\ mIn = <<>> /\ mOut = <<>> /\ mCalls = 0
    /\ PureIdle

\* forceLinting: the lint plugin runs its sources although nothing changed
ForceLint ==
    /\ ~scheduled
    /\ scheduled' = TRUE
    /\ lastEvent' = "force"
    /\ UNCHANGED <<provider, doc, edits, lintDiags, pending, passes, nPasses, ltState, lastPass>>
    /\ UNCHANGED <<count, lastTr, toc, raised, mIn, mOut, mCalls>>
    /\ UNCHANGED pureVars

NextAttach == LintEdit \/ ForceLint \/ StartPass \/ Settle

SpecAttach == InitAttach /\ [][NextAttach]_vars

(***************************************************************************)
(* Fields specification: the four derived fields of one editor state under *)
(* the transactions the editor sees: the user's changes, the effect-only   *)
(* transactions of the lint passes, and transactions that carry neither    *)
(* (a moved selection).  Here pending holds the pending-change field of    *)
(* each linter, lastTr the changes and lastEvent the effects of the last   *)
(* transaction.                                                            *)
(***************************************************************************)
MaxFieldsLen == 2    \* longest initial buffer of the fields specification

resetmdLintChanges == "resetmdLintChanges"
resetLanguageToolChanges == "resetLanguageToolChanges"

\* (mutant) one linter's reset effect resets the field of the other as well
changesFieldTransaction_AnyReset(value, old, chs, effects, reset) ==
    IF effects # {} THEN changesFieldReset(NewDoc(old, chs))
    ELSE IF ~DocChanged(chs) THEN value
    ELSE changesFieldUpdate(value, old, chs)

\* update of a pending-change field, reset being the reset effect of its
\* linter
changesFieldTransaction(value, old, chs, effects, reset) ==
    IF reset \in effects THEN changesFieldReset(NewDoc(old, chs))
    ELSE IF ~DocChanged(chs) THEN value
    ELSE changesFieldUpdate(value, old, chs)

InitFields ==
    /\ doc \in SeqsUpTo(TocAlphabet, MaxFieldsLen)
    /\ count = countFieldCreate(doc)
    /\ toc = tocFieldCreate(doc)
    /\ pending = [mdLintChangesField |-> changesFieldCreate(doc),
                  languageToolChangesField |-> changesFieldCreate(doc)]
    /\ raised = ""
    /\ lastTr = <<>> /\ lastEvent = {}
    /\ edits = 0
    /\ mIn = <<>> /\ mOut = <<>> /\ mCalls = 0
    /\ provider = "none" /\ lintDiags = <<>> /\ scheduled = FALSE
    /\ passes = <<>> /\ nPasses = 0
    /\ ltState = languageToolStateCreate /\ lastPass = NoPass
    /\ PureIdle

\* one transaction through the update of every field; a field that raises
\* fails the transaction
FieldsTransaction(chs, effects) ==
    /\ edits < MaxEdits
    /\ edits' = edits + 1
    /\ lastTr' = chs
    /\ lastEvent' = effects
    /\ IF tocUpdateRaises(doc, chs)
       THEN /\ raised' = "RangeError"
            /\ UNCHANGED <<doc, count, toc, pending>>
       ELSE /\ raised' = ""
            /\ doc' = NewDoc(doc, chs)
            /\ count' = countFieldUpdate(count, doc, chs)
            /\ toc' = tocFieldUpdate(toc, doc, chs)
            /\ pending' =
                 [mdLintChangesField |->
                      changesFieldTransaction(pending.mdLintChangesField, doc, chs,
                                              effects, resetmdLintChanges),
                  languageToolChangesField |->
                      changesFieldTransaction(pending.languageToolChangesField, doc, chs,
                                              effects, resetLanguageToolChanges)]
    /\ UNCHANGED <<mIn, mOut, mCalls>>
    /\ UNCHANGED <<provider, lintDiags, scheduled, passes, nPasses, ltState, lastPass>>
    /\ UNCHANGED pureVars

\* the user types or deletes
FieldsEdit ==
    \E chs \in Changes1(doc, TocInserts) : ValidTr(doc, chs) /\ FieldsTransaction(chs, {})

\* a lint pass dispatches its reset effect
FieldsReset ==
    \E reset \in {resetmdLintChanges, resetLanguageToolChanges} :
        FieldsTransaction(<<>>, {reset})

\* a transaction with no change and no effect of the linters
FieldsOther == FieldsTransaction(<<>>, {})

NextFields == FieldsEdit \/ FieldsReset \/ FieldsOther

SpecFields == InitFields /\ [][NextFields]_vars

(***************************************************************************)
(*                              Properties                                 *)
(***************************************************************************)

\* C1: after any sequence of transactions the value countField holds by
\* delta accumulation is the value countField.create computes from the
\* resulting buffer.
C1_CountEqualsRecount == count = countFieldCreate(doc)

\* C2: after a document-changing transaction tocField.update has returned
\* an outline, and it is the outline tocField.create computes from the new
\* buffer.
C2_OutlineEqualsCreate ==
    edits > 0 => (raised = "" /\ toc = tocFieldCreate(doc))

\* the offsets a list of ranges covers
Covered(ranges) == UNION {ranges[i].from..ranges[i].to : i \in 1..Len(ranges)}

PassesSeen == {passes[k] : k \in 1..Len(passes)} \cup {lastPass}

\* the diagnostics of its provider a pass found in the lint state
OwnDiags(p) == {p.startDiags[j] : j \in {i \in 1..Len(p.startDiags) :
                                         SourceIncludes(p.startDiags[i].source, p.prov)}}

\* the span of a diagnostic in the buffer the pass started on
CurrentSpan(d) == [from |-> d.from, to |-> d.to]

\* a diagnostic as the result list holds it when it is kept
Kept(d) == [d EXCEPT !.dfrom = d.from, !.dto = d.to]

InResult(p, d) == \E k \in 1..Len(p.diagnostics) : p.diagnostics[k] = Kept(d)

IsRetained(p, d) == \E k \in 1..p.nRetained : p.diagnostics[k] = Kept(d)

SpanCovered(d, ranges) ==
    \E i \in 1..Len(ranges) : ranges[i].from <= d.from /\ d.to <= ranges[i].to

ChangedSpans(p) == [i \in 1..Len(p.coverage) |->
                       [from |-> p.coverage[i].fromB, to |-> p.coverage[i].toB]]

FailedRanges(p) == {i \in 1..Len(p.ranges) : p.outcomes[i] \in {"throw", "error", "none"}}

\* C3: an edit applied while a pass is in flight is not lost: when the pass
\* has finished and dispatched its reset, the pending-change field still
\* holds a changed range for that edit.
C3_EditInFlightStaysPending ==
    (lastEvent = "finish" /\ lastPass.dirty) => iterChangedRanges(pending) # <<>>

\* C4 as stated: when the pending changes are disjoint from every diagnostic
\* of the provider, the pass returns every such diagnostic with the same
\* message, severity and source, at its span mapped through the edits.
C4_DisjointEditsKeepDiagnostics ==
    lastEvent = "finish" =>
        ((\A d \in OwnDiags(lastPass) : ~overlaps(CurrentSpan(d), ChangedSpans(lastPass)))
            => \A d \in OwnDiags(lastPass) : InResult(lastPass, d))

\* C4 amended: every diagnostic of the provider whose span in the current
\* buffer overlaps none of the merged ranges the pass analyses is returned
\* with the same message, severity and source, at its span mapped through
\* the edits.
C4_OutsideRangesKeepDiagnostics ==
    lastEvent = "finish" =>
        \A d \in OwnDiags(lastPass) :
            ~overlaps(CurrentSpan(d), lastPass.ranges) => IsRetained(lastPass, d)

C4_Witness ==
    /\ lastEvent = "finish"
    /\ lastPass.ranges # <<>>
    /\ \E d \in OwnDiags(lastPass) :
        /\ ~overlaps(CurrentSpan(d), lastPass.ranges)
        /\ d.from # d.dfrom
        /\ IsRetained(lastPass, d)

\* C5: every diagnostic of the provider whose span in the current buffer
\* overlaps the ranges expanded from the pending changes is not retained,
\* and the merged ranges of the pass cover its current span.
C5_OverlappingDiagnosticsReanalysed ==
    \A p \in PassesSeen : \A d \in OwnDiags(p) :
        overlaps(CurrentSpan(d), p.expanded)
            => (~IsRetained(p, d) /\ SpanCovered(d, p.ranges))

\* C6: when a pass completes, every fresh diagnostic of its list lies inside
\* a merged range and no retained diagnostic overlaps a merged range.
C6_RetainedOutsideAnalysedRanges ==
    lastEvent = "finish" =>
        /\ \A k \in 1..lastPass.nRetained :
               ~overlaps(lastPass.diagnostics[k], lastPass.ranges)
        /\ \A k \in (lastPass.nRetained + 1)..Len(lastPass.diagnostics) :
               SpanCovered(lastPass.diagnostics[k], lastPass.ranges)

\* C7: a pass one of whose ranges the analyzer failed on (it threw, returned
\* an error string or returned nothing) is not rejected: it still completes
\* and returns the diagnostics of its other ranges.
C7_FailedRangeLeavesPassComplete ==
    \A p \in PassesSeen : FailedRanges(p) # {} => ~p.rejected

\* C8: when a pass of the grammar linter has completed and the collaborator
\* returned an error string for one of its ranges, lastError holds that
\* error, whatever the order in which the tasks of the pass answered.
C8_LastErrorKept ==
    (lastEvent = "finish" /\ \E i \in 1..Len(lastPass.ranges) : lastPass.outcomes[i] = "error")
        => ltState.lastError = "error"


(***************************************************************************)
(* Properties of the outline.                                              *)
(***************************************************************************)
LevelsOf(entries) == [i \in 1..Len(entries) |-> entries[i].level]

RenderedOf(entries) == [i \in 1..Len(entries) |-> entries[i].renderedLevel]

\* C11: headings of the levels 1, 2, 2, 1, 3 get the rendered levels
\* "1", "1.1", "1.2", "2", "2.1".
C11_NumberingExample ==
    (called /\ LevelsOf(tocArg) = <<1, 2, 2, 1, 3>>)
        => RenderedOf(tocResult) = <<<<1>>, <<1, 1>>, <<1, 2>>, <<2>>, <<2, 1>>>>


\* counter k after the first i entries: the entries of level k among them
\* that no entry of a smaller level follows
CounterAfter(levels, i, k) ==
    Cardinality({j \in 1..i : levels[j] = k /\ \A m \in (j + 1)..i : levels[m] >= k})

AttributeBlock(t) ==
    LET n == Len(t)
        opens == {i \in 1..(n - 1) : t[i] = "{"}
        last == CHOOSE i \in opens : \A j \in opens : j <= i
    IN IF n >= 2 /\ t[n] = "}" /\ opens # {}
          /\ \A k \in (last + 1)..(n - 1) : t[k] # "}"
       THEN SubSeq(t, last + 1, n - 1)
       ELSE <<>>

HasAttributeId(t) == Len(FindId(SplitWords(AttributeBlock(t), <<>>))) > 1

\* the slug as the claim words it
RECURSIVE AfterNonLetters(_)
AfterNonLetters(t) ==
    IF t = <<>> \/ Head(t) \in LowerLetters THEN t ELSE AfterNonLetters(Tail(t))

SlugOf(t) ==
    LET lower == [i \in 1..Len(t) |-> toLowerCase(t[i])]
        hyphens == [i \in 1..Len(t) |-> IF IsSpaceChar(lower[i]) THEN "-" ELSE lower[i]]
        kept == SelectSeq(hyphens, LAMBDA c : c \in LowerLetters \cup {Punct, "-", "_"})
        text == AfterNonLetters(kept)
    IN IF text = <<>> THEN SectionId ELSE text

\* C13: a heading ending in an attribute block with a token #x gets the id
\* x whatever else it contains; a heading without braces (and so without an
\* attribute block; the model has no named anchors) gets its slug, "section"
\* when the slug is empty; "Header {#custom-id}" gets "custom-id" and
\* "Hello World!" gets "hello-world".
C13_HeadingIdPrecedence ==
    called =>
        /\ HasAttributeId(idArg)
              => idResult = Tail(FindId(SplitWords(AttributeBlock(idArg), <<>>)))
        /\ (\A i \in 1..Len(idArg) : idArg[i] \notin {"{", "}"})
              => idResult = SlugOf(idArg)
        /\ idArg = HeaderCustomId
              => idResult = <<"c", "u", "s", "t", "o", "m", "-", "i", "d">>
        /\ idArg = HelloWorld
              => idResult = <<"h", "e", "l", "l", "o", "-", "w", "o", "r", "l", "d">>


\* the headings found by the last update in the lines it parsed again
FreshOfLastUpdate == RangeEntries(doc, lastTr, 1)

Unnumbered(entry) == [entry EXCEPT !.renderedLevel = <<>>]

ConsistentEntry(d, entry) ==
    /\ entry.line \in 1..Lines(d)
    /\ entry.text = LineText(d, entry.line)
    /\ entry.pos >= LineFrom(d, entry.line) /\ entry.pos <= LineTo(d, entry.line)
    /\ entry.id = headingToID(entry.text)
    /\ entry.level >= 1 /\ entry.level = HeadingLevel(entry.text)

MappedLine(old, chs, entry) ==
    LET newPos == mapPos(ChangeDescOf(chs, Len(old)), entry.pos, 1, "TrackAfter")
    IN IF newPos = Deleted THEN Deleted ELSE LineNoAt(NewDoc(old, chs), newPos)

\* the entry is to be dropped: its position is deleted or its line is no
\* heading any more
Gone(old, chs, entry) ==
    \/ MappedLine(old, chs, entry) = Deleted
    \/ HeadingLevel(LineText(NewDoc(old, chs), MappedLine(old, chs, entry))) = 0

\* C16: an update drops a previous entry whose position is deleted or whose
\* line is no heading any more, without raising an error, and keeps an entry
\* whose heading the change leaves a heading.
C16_DroppedWithoutRaising ==
    [][edits' = edits + 1 =>
          \A i \in 1..Len(toc) :
              IF Gone(doc, lastTr', toc[i])
              THEN /\ raised' = ""
                   /\ MappedLine(doc, lastTr', toc[i]) # Deleted
                         => \A k \in 1..Len(toc') :
                                toc'[k].line # MappedLine(doc, lastTr', toc[i])
              ELSE raised' = ""
                      => \E k \in 1..Len(toc') :
                             toc'[k].line = MappedLine(doc, lastTr', toc[i])]_vars


\* C17: tocField.update raises for no edit of no buffer, edits that start on
\* the first line and edits of a one-line buffer included.
C17_UpdateNeverRaises == raised = ""


\* the length of the buffer a descriptor starts from
RECURSIVE DescLength(_)
DescLength(desc) == IF desc = <<>> THEN 0 ELSE desc[1][1] + DescLength(Tail(desc))

\* mapping a position through the descriptors of descs one after the other
RECURSIVE MapThrough(_, _, _)
MapThrough(descs, pos, assoc) ==
    IF descs = <<>> THEN pos
    ELSE MapThrough(Tail(descs), mapPos(Head(descs), pos, assoc, "Simple"), assoc)

\* the position lies in or at the border of a stretch the descriptor changes
Touched(desc, pos) ==
    \E i \in 1..Len(iterChangedRanges(desc)) :
        /\ iterChangedRanges(desc)[i].fromA <= pos
        /\ pos <= iterChangedRanges(desc)[i].toA

\* C18 (as stated): after a reset and the edits since, mapping any position
\* through the pending descriptor equals mapping it through the edits in
\* order, and the empty descriptor maps every position to itself.
C18_PendingEqualsReplay ==
    nPasses > 0 =>
        \A pos \in 0..DescLength(pending) : \A assoc \in {-1, 1} :
            mapPos(pending, pos, assoc, "Simple") = MapThrough(replay, pos, assoc)

\* C18 (amended): the same for every position outside the stretches the
\* pending descriptor changes; the empty descriptor maps every position to
\* itself.
C18_UntouchedEqualsReplay ==
    nPasses > 0 =>
        /\ \A pos \in 0..DescLength(pending) : \A assoc \in {-1, 1} :
              ~Touched(pending, pos)
                  => mapPos(pending, pos, assoc, "Simple") = MapThrough(replay, pos, assoc)
        /\ replay = <<>>
              => \A pos \in 0..DescLength(pending) : \A assoc \in {-1, 1} :
                    mapPos(pending, pos, assoc, "Simple") = pos

\* two edits since the reset, and a position outside the changed stretches
\* that they move
C18_Witness ==
    /\ nPasses > 0 /\ Len(replay) = 2
    /\ \E pos \in 0..DescLength(pending) :
          /\ ~Touched(pending, pos)
          /\ mapPos(pending, pos, 1, "Simple") # pos
          /\ mapPos(pending, pos, 1, "Simple") = MapThrough(replay, pos, 1)


\* C19: a pass dispatches the reset of the pending changes only when all
\* its per-range tasks have settled and none of them failed (threw,
\* returned an error string or returned nothing).
C19_ResetOnlyAfterSuccess ==
    lastEvent = "finish" => (lastPass.todo = {} /\ FailedRanges(lastPass) = {})


\* C20: at most one pass of the provider is in flight at any time.
C20_OnePassInFlight == Len(passes) <= 1


(***************************************************************************)
(* Properties of the lint passes, continued.                               *)
(***************************************************************************)
\* the diagnostic lies in the buffer d, at the positions it was reported at
InBuffer(d, diag) ==
    /\ 0 <= diag.from /\ diag.from <= diag.to /\ diag.to <= Len(d)
    /\ diag.dfrom = diag.from /\ diag.dto = diag.to

Created(p) == {p.diagnostics[k] : k \in (p.nRetained + 1)..Len(p.diagnostics)}

StemsFrom(p, diag, i, m) ==
    /\ p.outcomes[i] = "ok"
    /\ diag.from = p.ranges[i].from + m.offset
    /\ diag.to = p.ranges[i].from + m.offset + m.length

MatchesOf(p, i) == {p.answers[i][j] : j \in 1..Len(p.answers[i])}

SeverityOf(issueType) ==
    IF issueType = "style" THEN "info"
    ELSE IF issueType = "misspelling" THEN "error" ELSE "warning"

\* C22: every diagnostic the grammar linter creates stems from a match, has
\* the severity of the match's issue type ("style": info, "misspelling":
\* error, any other: warning) and the source language-tool(issue type).
C22_SeverityByIssueType ==
    \A p \in PassesSeen : \A diag \in Created(p) :
        \E i \in 1..Len(p.ranges) : \E m \in MatchesOf(p, i) :
            /\ StemsFrom(p, diag, i, m)
            /\ diag.severity = SeverityOf(m.issueType)
            /\ diag.source = [tool |-> LanguageTool, label |-> m.issueType]

\* a pass has ended and shows the diagnostic of a match of an issue type
\* that is neither "style" nor "misspelling"
C22_Witness ==
    /\ lastEvent = "finish"
    /\ \E diag \in Created(lastPass) :
          diag.source.label = "grammar" /\ diag.severity = "warning"
    /\ lintDiags # <<>>


\* the actions the claim gives a match: its first replacements, ten at most
FirstTen(replacements) ==
    [j \in 1..(IF Len(replacements) < 10 THEN Len(replacements) ELSE 10) |->
        [name |-> replacements[j].value]]

ActionsAsClaimed ==
    \A p \in PassesSeen : \A diag \in Created(p) :
        \E i \in 1..Len(p.ranges) : \E m \in MatchesOf(p, i) :
            /\ StemsFrom(p, diag, i, m)
            /\ diag.actions = FirstTen(m.replacements)

\* C23: a grammar diagnostic carries the first min(10, n) of the n
\* replacements of its match as actions, in their order (none when n = 0),
\* and invoking an action dispatches one change that replaces the span of
\* the diagnostic by the replacement text.
C23_ActionsAreFirstReplacements ==
    [][/\ ActionsAsClaimed'
       /\ lastEvent' = "fix"
             => \E k \in 1..Len(lintDiags) : \E a \in 1..Len(lintDiags[k].actions) :
                   /\ lastTr' = <<[from |-> lintDiags[k].from, to |-> lintDiags[k].to,
                                   insert |-> lintDiags[k].actions[a].name]>>
                   /\ doc' = SubSeq(doc, 1, lintDiags[k].from)
                             \o lintDiags[k].actions[a].name
                             \o SubSeq(doc, lintDiags[k].to + 1, Len(doc))]_vars

\* a match had more than ten replacements, its diagnostic got ten actions,
\* and the user has invoked the tenth
C23_Witness ==
    /\ lastEvent = "fix"
    /\ \E diag \in Created(lastPass) : Len(diag.actions) = 10
    /\ \E i \in 1..Len(lastPass.ranges) : \E m \in MatchesOf(lastPass, i) :
          Len(m.replacements) > 10
    /\ Len(lastTr) = 1 /\ Len(lastTr[1].insert) = 10


\* the text a pass submitted for its i-th range
Submitted(p, i) == Slice(p.docAt, p.ranges[i].from, p.ranges[i].to)

\* some plain-text node of the submitted text contains the whole match
InTextNode(m, text) ==
    \E node \in extractTextnodes(text) :
        node.from <= m.offset /\ m.offset + m.length <= node.to

\* C24: a match the collaborator returned for a range has become a
\* diagnostic if and only if a plain-text node of the submitted text
\* contains the whole match, offsets being relative to that text.
C24_MatchKeptIffInTextNode ==
    \A p \in PassesSeen : \A i \in 1..Len(p.ranges) : \A m \in MatchesOf(p, i) :
        (\E diag \in Created(p) : StemsFrom(p, diag, i, m))
            <=> InTextNode(m, Submitted(p, i))


\* the place has no usable position: it is undefined, or one of its points
\* has a null line or column
Unusable(place) ==
    \/ place.kind = Undefined
    \/ place.kind = "point" /\ Null \in {place.line, place.column}
    \/ place.kind = "position"
          /\ Null \in {place.line, place.column, place.eline, place.ecolumn}

\* the diagnostic is the one of the message m of the i-th range of the pass
OfMessage(p, diag, i, m) ==
    /\ p.outcomes[i] = "ok"
    /\ diag = MdDiagnostic(m, Submitted(p, i), p.ranges[i].from)

\* C25: the diagnostic of a message whose place is undefined or has a null
\* line or column, in a point or in the start or the end of a start/end
\* pair, is a zero-length diagnostic (placeToOffset does not raise on it).
C25_UnusablePlaceZeroLength ==
    \A p \in PassesSeen : \A i \in 1..Len(p.ranges) : \A m \in MatchesOf(p, i) :
        Unusable(m.place)
            => \E diag \in Created(p) : OfMessage(p, diag, i, m) /\ diag.from = diag.to


\* the diagnostics a pass found in the lint state that are not of its
\* provider: of the other provider, or without a source
ForeignDiags(p) == {p.startDiags[j] : j \in {i \in 1..Len(p.startDiags) :
                        p.startDiags[i].source.tool # p.prov}}

SpanOf(d) == d.from..d.to

\* C26: a pass of one provider copies no diagnostic of the other provider,
\* and none without a source, into its result list, and adds the span of
\* none to the ranges it analyses again: every diagnostic of its result is
\* its own, and its ranges cover no more than the expanded changes and the
\* spans of its own diagnostics.
C26_ReconcilersIndependent ==
    \A p \in PassesSeen :
        /\ \A k \in 1..Len(p.diagnostics) : p.diagnostics[k].source.tool = p.prov
        /\ \A d \in ForeignDiags(p) : ~InResult(p, d)
        /\ Covered(p.ranges) \subseteq
               Covered(p.expanded) \cup UNION {SpanOf(d) : d \in OwnDiags(p)}

\* a finished pass found in the lint state a foreign diagnostic on the
\* border of a changed range, and one away from every range, next to a
\* diagnostic of its own that it kept
C26_Witness ==
    /\ lastEvent = "finish"
    /\ \E d \in ForeignDiags(lastPass) :
          /\ StaleOverlap(lastPass.prov, d, lastPass.expanded)
          /\ ~(SpanOf(d) \subseteq Covered(lastPass.ranges))
    /\ \/ lastPass.nRetained > 0
       \/ \E d \in ForeignDiags(lastPass) :
             ~StaleOverlap(lastPass.prov, d, lastPass.expanded)


(***************************************************************************)
(* Properties of getSurroundingLinePosition.                               *)
(***************************************************************************)
\* C27: getSurroundingLinePosition is idempotent for a fixed context: called
\* on the range it returned, with the same context, it returns that range.
C27_SurroundingIdempotent ==
    Len(blockResult) = 2 => blockResult[2] = blockResult[1]

\* line n is the first (the last) line of a block, a maximal run of
\* non-blank lines
IsBlockStart(d, n) == ~BlankLine(d, n) /\ (n = 1 \/ BlankLine(d, n - 1))
IsBlockEnd(d, n) == ~BlankLine(d, n) /\ (n = Lines(d) \/ BlankLine(d, n + 1))

\* the blocks that lie above the line (the block) of an offset, and below it
BlocksAbove(d, pos) ==
    Cardinality({n \in 1..LineNoAt(d, pos) :
                    IsBlockStart(d, n) /\ \E k \in n..LineNoAt(d, pos) : BlankLine(d, k)})
BlocksBelow(d, pos) ==
    Cardinality({n \in LineNoAt(d, pos)..Lines(d) :
                    IsBlockEnd(d, n) /\ \E k \in LineNoAt(d, pos)..n : BlankLine(d, k)})

\* the call ends on lines of the buffer
LinesInBuffer ==
    LET lines == SurroundingLines(doc, blockArg.from, blockArg.to, blockArg.context)
    IN /\ lines.fromLine \in 1..Lines(doc)
       /\ lines.toLine \in 1..Lines(doc)
       /\ blockResult[1] = [from |-> LineFrom(doc, lines.fromLine),
                            to |-> LineTo(doc, lines.toLine)]

\* C28: for every buffer, every range 0 <= from <= to <= length and every
\* context >= 0 the call ends without error on lines within 1..totalLines;
\* with fewer blocks above (below) than the context asks for, the result
\* starts at the start (ends at the end) of the buffer.
C28_SurroundingStopsAtBoundary ==
    Len(blockResult) >= 1
        => /\ LinesInBuffer
           /\ BlocksAbove(doc, blockArg.from) < blockArg.context => blockResult[1].from = 0
           /\ BlocksBelow(doc, blockArg.to) < blockArg.context => blockResult[1].to = Len(doc)


(***************************************************************************)
(* Properties of the lint passes: the buffer and the first pass.           *)
(***************************************************************************)
PassEvents == {"start", "settle", "finish", "reject"}

\* C29: a lint pass never changes the buffer: the transactions it
\* dispatches carry effects only; the buffer changes only with the change a
\* suggested-fix action dispatches when the user invokes it.
C29_PassLeavesBuffer ==
    [][/\ lastEvent' \in PassEvents => doc' = doc
       /\ doc' # doc =>
             /\ lastEvent' = "fix"
             /\ \E k \in 1..Len(lintDiags) : \E a \in 1..Len(lintDiags[k].actions) :
                   /\ lastTr' = apply(lintDiags[k].actions[a], lintDiags[k].from, lintDiags[k].to)
                   /\ doc' = NewDoc(doc, lastTr')]_vars

\* the user has invoked a fix of a diagnostic of a finished pass, and the
\* buffer holds the replacement
C29_Witness ==
    /\ lastEvent = "fix"
    /\ lastPass # NoPass /\ lastPass.dirty = FALSE
    /\ lastTr # <<>> /\ Len(doc) > lastTr[1].to - lastTr[1].from

\* the step starts a pass, and p is that pass
Starts(p) ==
    /\ nPasses' = nPasses + 1
    /\ IF lastEvent' = "start" THEN p = passes'[Len(passes')] ELSE p = lastPass'

\* C30: on first attach to a non-empty buffer the pending changes cover the
\* whole buffer, so the first pass analyses ranges whose union is
\* [0, length]; after that pass has reset them, a pass with no edit in
\* between analyses no range.
C30_FirstPassCoversBuffer ==
    [][\A p \in {passes'[k] : k \in 1..Len(passes')} \cup {lastPass'} :
          Starts(p) =>
              /\ (nPasses = 0 /\ edits = 0 /\ doc # <<>>)
                    => Covered(p.ranges) = 0..Len(doc)
              /\ (nPasses = 1 /\ edits = 0 /\ passes = <<>> /\ ~lastPass.rejected)
                    => p.ranges = <<>>
              /\ lastEvent = "finish" => p.ranges = <<>>]_vars

\* the first pass on a non-empty buffer has finished, and a second pass,
\* forced without an edit, has found no range to analyse
C30_Witness ==
    /\ doc # <<>> /\ edits = 0
    /\ nPasses = 2
    /\ lastEvent = "finish"
    /\ lastPass.ranges = <<>>


(***************************************************************************)
(* Properties of the statistics field, continued.                          *)
(***************************************************************************)
\* C31: after any sequence of edits both components of countField are
\* non-negative (words >= 0 and chars >= 0), also after the whole content
\* of the buffer has been deleted.
C31_CountNonNegative == count.words >= 0 /\ count.chars >= 0


(***************************************************************************)
(* Properties of getSurroundingLinePosition, continued.                    *)
(***************************************************************************)
SetMax(S) == CHOOSE x \in S : \A y \in S : y <= x
SetMin(S) == CHOOSE x \in S : \A y \in S : x <= y

\* the first line of the block before the block of a line, or the first
\* line of the buffer; the last line of the block after it, or the last
\* line of the buffer
PrecedingBlockStart(d, line) ==
    LET above == {n \in 1..line : IsBlockStart(d, n) /\ \E k \in n..line : BlankLine(d, k)}
    IN IF above = {} THEN 1 ELSE SetMax(above)
FollowingBlockEnd(d, line) ==
    LET below == {n \in line..Lines(d) : IsBlockEnd(d, n) /\ \E k \in line..n : BlankLine(d, k)}
    IN IF below = {} THEN Lines(d) ELSE SetMin(below)

\* the result contains the range given, starts where a line starts and
\* ends where a line ends
ContainsOnLines(d, arg, r) ==
    /\ r.from <= arg.from /\ arg.to <= r.to
    /\ \E n \in 1..Lines(d) : r.from = LineFrom(d, n)
    /\ \E n \in 1..Lines(d) : r.to = LineTo(d, n)

\* C32: with context 0 the range returned contains the range given, starts
\* at the beginning of a line and ends at the end of a line, and reaches
\* from the first line of the block before the block of from (or the buffer
\* start) to the last line of the block after the block of to (or the
\* buffer end).
C32_ContextZeroNeighbourBlocks ==
    (Len(blockResult) >= 1 /\ blockArg.context = 0)
        => /\ ContainsOnLines(doc, blockArg, blockResult[1])
           /\ blockResult[1].from =
                  LineFrom(doc, PrecedingBlockStart(doc, LineNoAt(doc, blockArg.from)))
           /\ blockResult[1].to =
                  LineTo(doc, FollowingBlockEnd(doc, LineNoAt(doc, blockArg.to)))


(***************************************************************************)
(* Properties of the statistics field: the widened regions.                *)
(***************************************************************************)
\* from moved back to the start of the word at from, to moved forward to
\* the end of the word at to; both stay where no word is
WidenedFrom(d, from) ==
    SetMin({st \in 0..from : \A i \in (st + 1)..from : IsWordChar(d[i])})
WidenedTo(d, to) ==
    SetMax({en \in to..Len(d) : \A i \in (to + 1)..en : IsWordChar(d[i])})

\* what a widened region contributes: a single letter or digit one word
\* and one character
Contribution(d, from, to) ==
    LET text == Slice(d, WidenedFrom(d, from), WidenedTo(d, to))
    IN IF Len(text) = 1 /\ IsWordChar(text[1]) THEN [words |-> 1, chars |-> 1]
       ELSE countAll(text)

RECURSIVE WidenedDelta(_, _, _, _)
WidenedDelta(old, new, chs, i) ==
    IF i > Len(chs) THEN [words |-> 0, chars |-> 0]
    ELSE LET r == ChangedRange(chs, i)
             minus == Contribution(old, r.fromA, r.toA)
             plus == Contribution(new, r.fromB, r.toB)
             rest == WidenedDelta(old, new, chs, i + 1)
         IN [words |-> plus.words - minus.words + rest.words,
             chars |-> plus.chars - minus.chars + rest.chars]

\* C33: for each changed range countField.update subtracts the counts of
\* the old range and adds the counts of the new range, each widened to the
\* start of the word at from and to the end of the word at to; a widened
\* region that is a single letter or digit counts one word and one
\* character.
C33_WidenedRangesCounted ==
    [][LET delta == WidenedDelta(doc, doc', lastTr', 1)
       IN count' = [words |-> count.words + delta.words,
                    chars |-> count.chars + delta.chars]]_vars

\* a letter typed or text deleted inside a word: the new range is widened
\* on both sides
C33_Witness ==
    /\ edits > 0 /\ Len(lastTr) = 1
    /\ LET toB == lastTr[1].from + Len(lastTr[1].insert)
       IN /\ WidenedFrom(doc, lastTr[1].from) < lastTr[1].from
          /\ WidenedTo(doc, toB) > toB


(***************************************************************************)
(* Properties of the lint passes: the fresh diagnostics.                   *)
(***************************************************************************)
\* the diagnostics a pass has created for its i-th range
FreshOf(p, i) ==
    LET created == Fresh(p.prov, [kind |-> p.outcomes[i], items |-> p.answers[i]],
                         Submitted(p, i), p.ranges[i].from)
    IN {created[k] : k \in 1..Len(created)}

\* C34: every fresh diagnostic of a provider for an analysed range
\* [rangeFrom, rangeTo] has rangeFrom <= from <= to <= rangeTo, whatever
\* place or match the analyzer returns (a start/end pair with one null end
\* included).
C34_FreshWithinRange ==
    \A p \in PassesSeen : \A i \in 1..Len(p.ranges) : \A diag \in FreshOf(p, i) :
        /\ p.ranges[i].from <= diag.from
        /\ diag.from <= diag.to
        /\ diag.to <= p.ranges[i].to


(***************************************************************************)
(* Properties of the state of the grammar linter.                          *)
(***************************************************************************)
\* a grammar pass has tasks that wait for their response
TasksWaiting == \E k \in 1..Len(passes) : passes[k].todo # {}

\* C35: languageToolState.running is true while a grammar pass has tasks
\* of ranges that have not got their response, and false once the pass has
\* completed, also a pass that found no range to analyse and a pass with
\* several ranges analysed at the same time.
C35_RunningWhileTasksWait ==
    provider = LanguageTool
        => /\ TasksWaiting => ltState.running
           /\ (lastEvent = "finish" /\ passes = <<>>) => ~ltState.running


(***************************************************************************)
(* Properties of the fields under transactions without changes.            *)
(***************************************************************************)
\* the empty descriptor over a buffer of n characters
EmptyOver(n) == IF n = 0 THEN <<>> ELSE <<<<n, -1>>>>

\* C36: a transaction that does not change the document and carries no
\* reset effect leaves countField, tocField, mdLintChangesField and
\* languageToolChangesField as they were; a reset effect sets the pending
\* changes of its linter to the empty descriptor over the new buffer length
\* and leaves the other derived fields as they were.
C36_FrameOfUnchangingTransactions ==
    [][(edits' = edits + 1 /\ ~DocChanged(lastTr'))
          => /\ count' = count /\ toc' = toc
             /\ IF resetmdLintChanges \in lastEvent'
                THEN pending'.mdLintChangesField = EmptyOver(Len(doc'))
                ELSE pending'.mdLintChangesField = pending.mdLintChangesField
             /\ IF resetLanguageToolChanges \in lastEvent'
                THEN pending'.languageToolChangesField = EmptyOver(Len(doc'))
                ELSE pending'.languageToolChangesField = pending.languageToolChangesField]_vars

\* the style linter has reset its pending changes after an edit, and those
\* of the grammar linter still hold the edit
C36_Witness ==
    /\ lastEvent = {resetmdLintChanges}
    /\ edits = MaxEdits
    /\ doc # <<>>
    /\ pending.mdLintChangesField = EmptyOver(Len(doc))
    /\ pending.languageToolChangesField # EmptyOver(Len(doc))

=============================================================================
